---- MODULE Spec2Model ----
(***************************************************************************)
(* Natural-language task agent (backend/agent) over the owner-scoped task  *)
(* store (backend/mcp/tools).                                              *)
(*                                                                         *)
(* Strings whose characters matter (titles, task references) are tuples of *)
(* one-character strings; an Optional[...] value is <<>> for None and      *)
(* <<v>> for a value v.  Timestamps and due_date (always None through the  *)
(* agent) are left out of a task row.  chat is the conversation store of   *)
(* api/v1/endpoints/chatkit.py.                                            *)
(***************************************************************************)
EXTENDS Integers, Sequences, FiniteSets, TLC

VARIABLES store, nextId, phase, last, created, chat

vars == <<store, nextId, phase, last, created, chat>>

(***************************************************************************)
(* Bounds and input pools                                                  *)
(***************************************************************************)
MaxTasks == 2
MaxListLen == 2

Owners == {"u1", "u2"}

None == <<>>
Some(v) == <<v>>
Val(o) == o[1]

Max(a, b) == IF a >= b THEN a ELSE b

T_Ab == <<"A", "b">>
T_ab == <<"a", "b">>
T_ba == <<"b", "a">>
T_b == <<"b">>
T_AB == <<"A", "B">>
T_abc == <<"a", "b", "c">>
T_abd == <<"a", "b", "d">>
T_abcd == <<"a", "b", "c", "d">>
T_a7 == <<"a", "a", "a", "a", "a", "a", "a">>
T_a10 == <<"a", "a", "a", "a", "a", "a", "a", "a", "a", "a">>
D_d == <<"d">>

TaskIdPool == 1..MaxTasks
CreateTitles == {T_Ab, T_ba}
RefTitles == {T_ab, T_b}
NewTitles == {T_ba}
Descriptions == {D_d}

\* stored titles and task references of the resolver's own specification
ResolveTitles == {T_ab, T_ba, T_Ab, T_abc, T_abcd, T_a10}
ResolveNeedles == {<<>>, T_ab, T_AB, T_abc, T_abd, T_a7, T_b}

Opt(S) == {None} \cup {Some(x) : x \in S}

(***************************************************************************)
(* str.lower() and the substring test `a in b`                             *)
(***************************************************************************)
LowerChar(c) ==
    CASE c = "A" -> "a"  [] c = "B" -> "b"  [] c = "C" -> "c"  [] c = "D" -> "d"
      [] c = "E" -> "e"  [] c = "F" -> "f"  [] c = "G" -> "g"  [] c = "H" -> "h"
      [] c = "I" -> "i"  [] c = "J" -> "j"  [] c = "K" -> "k"  [] c = "L" -> "l"
      [] c = "M" -> "m"  [] c = "N" -> "n"  [] c = "O" -> "o"  [] c = "P" -> "p"
      [] c = "Q" -> "q"  [] c = "R" -> "r"  [] c = "S" -> "s"  [] c = "T" -> "t"
      [] c = "U" -> "u"  [] c = "V" -> "v"  [] c = "W" -> "w"  [] c = "X" -> "x"
      [] c = "Y" -> "y"  [] c = "Z" -> "z"
      [] OTHER -> c

lower(s) == [i \in 1..Len(s) |-> LowerChar(s[i])]

Contains(needle, hay) ==
    \E i \in 0..(Len(hay) - Len(needle)) :
        SubSeq(hay, i + 1, i + Len(needle)) = needle

(***************************************************************************)
(* mcp/schemas/base.py: ToolResponse                                       *)
(***************************************************************************)
NoData == [kind |-> "none"]

ToolResponse(success, data, error, error_code) ==
    [success |-> success, data |-> data, error |-> error, error_code |-> error_code]

TitleMaxLength == 500
DescriptionMaxLength == 2000

(***************************************************************************)
(* mcp/tools: the five store operations.  Each takes the table `st` and    *)
(* whether the database raises during the call; the mutating ones return   *)
(* the new table with the response.                                        *)
(***************************************************************************)
\* a row filter that forgets the owner
ListFilter_any_owner(t, user_id, completed, priority) ==
    /\ (completed # None => t.completed = Val(completed))
    /\ (priority # None => t.priority = priority)

\* the where-clauses of lines 57-65
ListFilter(t, user_id, completed, priority) ==
    /\ t.user_id = user_id
    /\ (completed # None => t.completed = Val(completed))
    /\ (priority # None => t.priority = priority)

\* a listing that answers a database failure with an empty list
list_tasks_swallows_failure(st, user_id, completed, priority, db_fails) ==
    IF user_id = ""
    THEN ToolResponse(FALSE, NoData,
                      Some("User ID is required and cannot be empty"),
                      Some("INVALID_USER_ID"))
    ELSE LET rows == IF db_fails
                     THEN <<>>
                     ELSE SelectSeq(st, LAMBDA t :
                              ListFilter(t, user_id, completed, priority))
         IN ToolResponse(TRUE,
                         [kind |-> "tasks", tasks |-> rows, count |-> Len(rows)],
                         None, None)

list_tasks(st, user_id, completed, priority, db_fails) ==
    IF user_id = ""
    THEN ToolResponse(FALSE, NoData,
                      Some("User ID is required and cannot be empty"),
                      Some("INVALID_USER_ID"))
    ELSE IF db_fails
    THEN ToolResponse(FALSE, NoData,
                      Some("Failed to retrieve tasks due to a database error"),
                      Some("DATABASE_ERROR"))
    ELSE LET rows == SelectSeq(st, LAMBDA t :
                        ListFilter(t, user_id, completed, priority))
         IN ToolResponse(TRUE,
                         [kind |-> "tasks", tasks |-> rows, count |-> Len(rows)],
                         None, None)

\* a new row that takes a completed flag other than False
NewTask_completed(nid, user_id, title, description, priority) ==
    [id |-> nid, user_id |-> user_id, title |-> title,
     description |-> description, completed |-> TRUE, priority |-> priority]

\* a new row that is owned by nobody
NewTask_unowned(nid, user_id, title, description, priority) ==
    [id |-> nid, user_id |-> "", title |-> title,
     description |-> description, completed |-> FALSE, priority |-> priority]

\* Task(...) of lines 79-88
NewTask(nid, user_id, title, description, priority) ==
    [id |-> nid, user_id |-> user_id, title |-> title,
     description |-> description, completed |-> FALSE, priority |-> priority]

add_task(st, nid, user_id, title, description, priority, db_fails) ==
    IF user_id = ""
    THEN [st |-> st, nid |-> nid,
          resp |-> ToolResponse(FALSE, NoData,
                      Some("User ID is required and cannot be empty"),
                      Some("INVALID_USER_ID"))]
    ELSE IF Len(title) > TitleMaxLength
    THEN [st |-> st, nid |-> nid,
          resp |-> ToolResponse(FALSE, NoData,
                      Some("Task title must be 500 characters or less"),
                      Some("VALIDATION_ERROR"))]
    ELSE IF description # None /\ Len(Val(description)) > DescriptionMaxLength
    THEN [st |-> st, nid |-> nid,
          resp |-> ToolResponse(FALSE, NoData,
                      Some("Task description must be 2000 characters or less"),
                      Some("VALIDATION_ERROR"))]
    ELSE IF db_fails
    THEN [st |-> st, nid |-> nid,
          resp |-> ToolResponse(FALSE, NoData,
                      Some("Failed to create task due to a database error"),
                      Some("DATABASE_ERROR"))]
    ELSE LET new_task == NewTask(nid, user_id, title, description, priority)
         IN [st |-> Append(st, new_task), nid |-> nid + 1,
             resp |-> ToolResponse(TRUE, [kind |-> "task", task |-> new_task],
                                   None, None)]

\* select(Task).where(Task.id == task_id, Task.user_id == user_id).first():
\* the position of the row in the table, 0 when there is none
FindOwned(st, user_id, task_id) ==
    LET hits == {i \in 1..Len(st) : st[i].id = task_id /\ st[i].user_id = user_id}
    IN IF hits = {} THEN 0 ELSE CHOOSE i \in hits : \A j \in hits : i <= j

NotOwnedResponse ==
    ToolResponse(FALSE, NoData,
                 Some("Task not found or you don't have permission to access it"),
                 Some("TASK_NOT_FOUND"))

\* a completion that flips the flag of the task
complete_task_toggles(st, user_id, task_id, completed, db_fails) ==
    IF user_id = "" \/ db_fails \/ FindOwned(st, user_id, task_id) = 0
    THEN [st |-> st, resp |-> NotOwnedResponse]
    ELSE LET i == FindOwned(st, user_id, task_id)
             task == [st[i] EXCEPT !.completed = ~st[i].completed]
         IN [st |-> [st EXCEPT ![i] = task],
             resp |-> ToolResponse(TRUE, [kind |-> "task", task |-> task],
                                   None, None)]

\* a completion that sets the flag on every task of the owner
complete_task_all_owned(st, user_id, task_id, completed, db_fails) ==
    IF user_id = "" \/ db_fails \/ FindOwned(st, user_id, task_id) = 0
    THEN [st |-> st, resp |-> NotOwnedResponse]
    ELSE LET i == FindOwned(st, user_id, task_id)
         IN [st |-> [j \in 1..Len(st) |->
                       IF st[j].user_id = user_id
                       THEN [st[j] EXCEPT !.completed = completed]
                       ELSE st[j]],
             resp |-> ToolResponse(TRUE,
                         [kind |-> "task",
                          task |-> [st[i] EXCEPT !.completed = completed]],
                         None, None)]

complete_task(st, user_id, task_id, completed, db_fails) ==
    IF user_id = ""
    THEN [st |-> st,
          resp |-> ToolResponse(FALSE, NoData,
                      Some("User ID is required and cannot be empty"),
                      Some("INVALID_USER_ID"))]
    ELSE IF db_fails
    THEN [st |-> st,
          resp |-> ToolResponse(FALSE, NoData,
                      Some("Failed to update task due to a database error"),
                      Some("DATABASE_ERROR"))]
    ELSE LET i == FindOwned(st, user_id, task_id)
         IN IF i = 0
            THEN [st |-> st, resp |-> NotOwnedResponse]
            ELSE LET task == [st[i] EXCEPT !.completed = completed]
                 IN [st |-> [st EXCEPT ![i] = task],
                     resp |-> ToolResponse(TRUE, [kind |-> "task", task |-> task],
                                           None, None)]

update_task(st, user_id, task_id, new_title, new_description, db_fails) ==
    IF user_id = ""
    THEN [st |-> st,
          resp |-> ToolResponse(FALSE, NoData,
                      Some("User ID is required and cannot be empty"),
                      Some("INVALID_USER_ID"))]
    ELSE IF new_title = None /\ new_description = None
    THEN [st |-> st,
          resp |-> ToolResponse(FALSE, NoData,
                      Some("At least one of new_title or new_description must be provided"),
                      Some("VALIDATION_ERROR"))]
    ELSE IF new_title # None /\ Len(Val(new_title)) > TitleMaxLength
    THEN [st |-> st,
          resp |-> ToolResponse(FALSE, NoData,
                      Some("Task title must be 500 characters or less"),
                      Some("VALIDATION_ERROR"))]
    ELSE IF new_description # None /\ Len(Val(new_description)) > DescriptionMaxLength
    THEN [st |-> st,
          resp |-> ToolResponse(FALSE, NoData,
                      Some("Task description must be 2000 characters or less"),
                      Some("VALIDATION_ERROR"))]
    ELSE IF db_fails
    THEN [st |-> st,
          resp |-> ToolResponse(FALSE, NoData,
                      Some("Failed to update task due to a database error"),
                      Some("DATABASE_ERROR"))]
    ELSE LET i == FindOwned(st, user_id, task_id)
         IN IF i = 0
            THEN [st |-> st, resp |-> NotOwnedResponse]
            ELSE LET t1 == IF new_title # None
                           THEN [st[i] EXCEPT !.title = Val(new_title)]
                           ELSE st[i]
                     task == IF new_description # None
                             THEN [t1 EXCEPT !.description = new_description]
                             ELSE t1
                 IN [st |-> [st EXCEPT ![i] = task],
                     resp |-> ToolResponse(TRUE, [kind |-> "task", task |-> task],
                                           None, None)]

\* a delete without the check of lines 64-69: deleting the missing row raises
delete_task_unchecked(st, user_id, task_id, db_fails) ==
    IF user_id = ""
    THEN [st |-> st,
          resp |-> ToolResponse(FALSE, NoData,
                      Some("User ID is required and cannot be empty"),
                      Some("INVALID_USER_ID"))]
    ELSE IF db_fails \/ FindOwned(st, user_id, task_id) = 0
    THEN [st |-> st,
          resp |-> ToolResponse(FALSE, NoData,
                      Some("Failed to delete task due to a database error"),
                      Some("DATABASE_ERROR"))]
    ELSE LET i == FindOwned(st, user_id, task_id)
         IN [st |-> SubSeq(st, 1, i - 1) \o SubSeq(st, i + 1, Len(st)),
             resp |-> ToolResponse(TRUE,
                         [kind |-> "deleted", task_id |-> st[i].id,
                          deleted |-> TRUE],
                         None, None)]

delete_task(st, user_id, task_id, db_fails) ==
    IF user_id = ""
    THEN [st |-> st,
          resp |-> ToolResponse(FALSE, NoData,
                      Some("User ID is required and cannot be empty"),
                      Some("INVALID_USER_ID"))]
    ELSE IF db_fails
    THEN [st |-> st,
          resp |-> ToolResponse(FALSE, NoData,
                      Some("Failed to delete task due to a database error"),
                      Some("DATABASE_ERROR"))]
    ELSE LET i == FindOwned(st, user_id, task_id)
         IN IF i = 0
            THEN [st |-> st, resp |-> NotOwnedResponse]
            ELSE [st |-> SubSeq(st, 1, i - 1) \o SubSeq(st, i + 1, Len(st)),
                  resp |-> ToolResponse(TRUE,
                              [kind |-> "deleted", task_id |-> st[i].id,
                               deleted |-> TRUE],
                              None, None)]

(***************************************************************************)
(* agent/agent.py: identify_task, the Task Resolver.  A similarity score   *)
(* is kept as the fraction <<numerator, denominator>> of the two lengths   *)
(* the code divides; fractions are compared by cross-multiplication.       *)
(***************************************************************************)
ThresholdNum == 7
ThresholdDen == 10

ScoreGt(a, b) == a[1] * b[2] > b[1] * a[2]
ScoreGe(a, b) == a[1] * b[2] >= b[1] * a[2]

\* common_chars = sum(1 for c in task_title_lower if c in title)
CommonChars(needle, title) ==
    Cardinality({i \in 1..Len(needle) : \E j \in 1..Len(title) : title[j] = needle[i]})

\* lines 529-536, on the two lowercased strings
Similarity(task_title_lower, title) ==
    IF Contains(task_title_lower, title)
    THEN <<Len(task_title_lower), Len(title)>>
    ELSE IF Contains(title, task_title_lower)
    THEN <<Len(title), Len(task_title_lower)>>
    ELSE <<CommonChars(task_title_lower, title),
           Max(Len(task_title_lower), Len(title))>>

\* a comparison that lets a later task of equal score replace the best one
KeepsBest_on_ties(score, best_score) ==
    ScoreGe(score, best_score) /\ ScoreGe(score, <<ThresholdNum, ThresholdDen>>)

\* line 539: if score > best_score and score >= 0.7
KeepsBest(score, best_score) ==
    ScoreGt(score, best_score) /\ ScoreGe(score, <<ThresholdNum, ThresholdDen>>)

\* a title compared as it is stored
TaskTitleLower_as_stored(task) == task.title

\* line 525: title = task.get("title", "").lower()
TaskTitleLower(task) == lower(task.title)

\* the loop of lines 524-541 from task i on
RECURSIVE BestMatch(_, _, _, _, _)
BestMatch(tasks, i, task_title_lower, best_match, best_score) ==
    IF i > Len(tasks)
    THEN best_match
    ELSE LET score == Similarity(task_title_lower, TaskTitleLower(tasks[i]))
         IN IF KeepsBest(score, best_score)
            THEN BestMatch(tasks, i + 1, task_title_lower, Some(tasks[i].id), score)
            ELSE BestMatch(tasks, i + 1, task_title_lower, best_match, best_score)

\* Python truthiness of an Optional[str]: None and "" are falsy
Truthy(o) == o # None /\ Val(o) # <<>>

\* a resolver that falls through to the title when the id is not in the list
ResolveIn_falls_through(tasks, task_id, task_title) ==
    IF task_id # None /\ \E i \in 1..Len(tasks) : tasks[i].id = Val(task_id)
    THEN task_id
    ELSE IF Truthy(task_title)
    THEN BestMatch(tasks, 1, lower(Val(task_title)), None, <<0, 1>>)
    ELSE None

\* lines 508-543, on the fetched task list
ResolveIn(tasks, task_id, task_title) ==
    IF task_id # None
    THEN IF \E i \in 1..Len(tasks) : tasks[i].id = Val(task_id)
         THEN task_id
         ELSE None
    ELSE IF Truthy(task_title)
    THEN BestMatch(tasks, 1, lower(Val(task_title)), None, <<0, 1>>)
    ELSE None

\* a resolver that searches the tasks of every owner
identify_task_any_owner(st, user_id, task_id, task_title, list_fails) ==
    IF list_fails THEN None ELSE ResolveIn(st, task_id, task_title)

identify_task(st, user_id, task_id, task_title, list_fails) ==
    LET tool_response == list_tasks(st, user_id, None, None, list_fails)
    IN IF ~tool_response.success
       THEN None
       ELSE ResolveIn(tool_response.data.tasks, task_id, task_title)

(***************************************************************************)
(* agent/agent.py: the five invokers and invoke_tool, the Dispatcher.      *)
(* `fault` names the database call that raises during the dispatch:        *)
(* "none", "list" (a list_tasks call) or "op" (the mutating tool call).    *)
(* Each invoker returns the table, the id counter, the result dictionary,  *)
(* the store operations it invoked in order, and what the resolver         *)
(* returned.                                                               *)
(***************************************************************************)
Faults == {"none", "list", "op"}

ToolResult(tool_name, resp) ==
    [tool_name |-> tool_name, success |-> resp.success, data |-> resp.data,
     error |-> resp.error, error_code |-> resp.error_code]

FailedResult(tool_name, error, error_code) ==
    [tool_name |-> tool_name, success |-> FALSE, data |-> NoData,
     error |-> Some(error), error_code |-> Some(error_code)]

Outcome(st, nid, result, calls, resolved) ==
    [st |-> st, nid |-> nid, result |-> result, calls |-> calls,
     resolved |-> resolved]

\* an input schema without min_length on the title
AddTaskInputValid_no_minimum(user_id, title, description) ==
    /\ user_id # ""
    /\ Len(title) <= TitleMaxLength
    /\ (description # None => Len(Val(description)) <= DescriptionMaxLength)

\* pydantic: AddTaskInput(user_id min_length=1, title 1..500, description <=2000)
AddTaskInputValid(user_id, title, description) ==
    /\ user_id # ""
    /\ Len(title) >= 1
    /\ Len(title) <= TitleMaxLength
    /\ (description # None => Len(Val(description)) <= DescriptionMaxLength)

invoke_add_task(st, nid, user_id, params, fault) ==
    IF ~AddTaskInputValid(user_id, params.title, params.description)
    THEN Outcome(st, nid,
                 FailedResult(Some("add_task"), "ValidationError", "INTERNAL_ERROR"),
                 <<>>, None)
    ELSE LET r == add_task(st, nid, user_id, params.title, params.description,
                           params.priority, fault = "op")
         IN Outcome(r.st, r.nid, ToolResult(Some("add_task"), r.resp),
                    <<"add_task">>, None)

invoke_list_tasks(st, nid, user_id, params, fault) ==
    IF user_id = ""
    THEN Outcome(st, nid,
                 FailedResult(Some("list_tasks"), "ValidationError", "INTERNAL_ERROR"),
                 <<>>, None)
    ELSE Outcome(st, nid,
                 ToolResult(Some("list_tasks"),
                            list_tasks(st, user_id, params.completed,
                                       params.priority, fault = "list")),
                 <<"list_tasks">>, None)

\* the store calls identify_task makes (ListTasksInput rejects an empty user_id
\* before list_tasks is reached)
ResolverCalls(user_id) == IF user_id = "" THEN <<>> ELSE <<"list_tasks">>

\* a resolver miss reported as an internal error
TaskNotFound_internal(tool_name) ==
    FailedResult(Some(tool_name), "Task not found", "INTERNAL_ERROR")

\* the result of lines 445-452, 567-574 and 640-647
TaskNotFound(tool_name) ==
    FailedResult(Some(tool_name), "Task not found", "TASK_NOT_FOUND")

invoke_complete_task(st, nid, user_id, params, fault) ==
    LET task_id == identify_task(st, user_id, params.task_id, params.task_title,
                                 fault = "list")
    IN IF task_id = None
       THEN Outcome(st, nid, TaskNotFound("complete_task"),
                    ResolverCalls(user_id), None)
       ELSE LET r == complete_task(st, user_id, Val(task_id), params.completed,
                                   fault = "op")
            IN Outcome(r.st, nid, ToolResult(Some("complete_task"), r.resp),
                       ResolverCalls(user_id) \o <<"complete_task">>, task_id)

\* pydantic: UpdateTaskInput(new_title 1..500 if given, new_description <=2000)
UpdateTaskInputValid(new_title, new_description) ==
    /\ (new_title # None =>
            Len(Val(new_title)) >= 1 /\ Len(Val(new_title)) <= TitleMaxLength)
    /\ (new_description # None =>
            Len(Val(new_description)) <= DescriptionMaxLength)
    /\ ~(new_title = None /\ new_description = None)

\* a check that lets an update with no field through
UpdateFieldsMissing_unchecked(new_title, new_description) == FALSE

\* line 580: if not new_title and not new_description
UpdateFieldsMissing(new_title, new_description) ==
    ~Truthy(new_title) /\ ~Truthy(new_description)

invoke_update_task(st, nid, user_id, params, fault) ==
    LET task_id == identify_task(st, user_id, params.task_id, params.task_title,
                                 fault = "list")
    IN IF task_id = None
       THEN Outcome(st, nid, TaskNotFound("update_task"),
                    ResolverCalls(user_id), None)
       ELSE IF UpdateFieldsMissing(params.new_title, params.new_description)
       THEN Outcome(st, nid,
                    FailedResult(Some("update_task"),
                        "At least one of new_title or new_description must be provided",
                        "VALIDATION_ERROR"),
                    ResolverCalls(user_id), task_id)
       ELSE IF ~UpdateTaskInputValid(params.new_title, params.new_description)
       THEN Outcome(st, nid,
                    FailedResult(Some("update_task"), "ValidationError",
                                 "INTERNAL_ERROR"),
                    ResolverCalls(user_id), task_id)
       ELSE LET r == update_task(st, user_id, Val(task_id), params.new_title,
                                 params.new_description, fault = "op")
                data == IF r.resp.success
                        THEN [kind |-> "task", task |-> r.resp.data.task,
                              old_title |-> params.task_title]
                        ELSE r.resp.data
            IN Outcome(r.st, nid,
                       ToolResult(Some("update_task"), [r.resp EXCEPT !.data = data]),
                       ResolverCalls(user_id) \o <<"update_task">>, task_id)

\* an invoker that calls delete_task a second time when the first call failed
invoke_delete_task_retries(st, nid, user_id, params, fault) ==
    LET task_id == identify_task(st, user_id, params.task_id, params.task_title,
                                 fault = "list")
    IN IF task_id = None
       THEN Outcome(st, nid, TaskNotFound("delete_task"),
                    ResolverCalls(user_id), None)
       ELSE LET r == delete_task(st, user_id, Val(task_id), fault = "op")
                again == delete_task(st, user_id, Val(task_id), fault = "op")
            IN IF r.resp.success
               THEN Outcome(r.st, nid, ToolResult(Some("delete_task"), r.resp),
                            ResolverCalls(user_id) \o <<"delete_task">>, task_id)
               ELSE Outcome(again.st, nid,
                            ToolResult(Some("delete_task"), again.resp),
                            ResolverCalls(user_id)
                               \o <<"delete_task", "delete_task">>,
                            task_id)

invoke_delete_task(st, nid, user_id, params, fault) ==
    LET task_id == identify_task(st, user_id, params.task_id, params.task_title,
                                 fault = "list")
    IN IF task_id = None
       THEN Outcome(st, nid, TaskNotFound("delete_task"),
                    ResolverCalls(user_id), None)
       ELSE LET r == delete_task(st, user_id, Val(task_id), fault = "op")
            IN Outcome(r.st, nid, ToolResult(Some("delete_task"), r.resp),
                       ResolverCalls(user_id) \o <<"delete_task">>, task_id)

\* an unknown intent reported under a tool's name
UnknownIntentResult_named ==
    FailedResult(Some("list_tasks"), "Unknown intent", "UNKNOWN_INTENT")

\* the result of lines 311-317
UnknownIntentResult == FailedResult(None, "Unknown intent", "UNKNOWN_INTENT")

invoke_tool(st, nid, user_id, intent, fault) ==
    CASE intent.operation_type = "CREATE" ->
            invoke_add_task(st, nid, user_id, intent.extracted_parameters, fault)
      [] intent.operation_type = "LIST" ->
            invoke_list_tasks(st, nid, user_id, intent.extracted_parameters, fault)
      [] intent.operation_type = "COMPLETE" ->
            invoke_complete_task(st, nid, user_id, intent.extracted_parameters, fault)
      [] intent.operation_type = "UPDATE" ->
            invoke_update_task(st, nid, user_id, intent.extracted_parameters, fault)
      [] intent.operation_type = "DELETE" ->
            invoke_delete_task(st, nid, user_id, intent.extracted_parameters, fault)
      [] intent.operation_type = "UNKNOWN" ->
            Outcome(st, nid, UnknownIntentResult, <<>>, None)
      [] OTHER ->
            Outcome(st, nid,
                    FailedResult(None, "Unsupported operation", "INTERNAL_ERROR"),
                    <<>>, None)

(***************************************************************************)
(* agent/response_formatter.py.  A reply is its format string with the     *)
(* values substituted into it.                                             *)
(***************************************************************************)
Text(fmt, args) == [fmt |-> fmt, args |-> args]

\* a table without the entry of INVALID_USER_ID
format_error_response_short_table(error_code, error_message) ==
    CASE error_code = Some("TASK_NOT_FOUND") ->
            Text("I couldn't find that task. Try listing your tasks first.", <<>>)
      [] error_code = Some("VALIDATION_ERROR") ->
            Text("Invalid input: {error_message}", <<error_message>>)
      [] error_code = Some("DATABASE_ERROR") ->
            Text("Something went wrong. Please try again.", <<>>)
      [] error_code = Some("INTERNAL_ERROR") ->
            Text("An error occurred. Please try again.", <<>>)
      [] OTHER ->
            Text("Something went wrong. Please try again.", <<>>)

format_error_response(error_code, error_message) ==
    CASE error_code = Some("TASK_NOT_FOUND") ->
            Text("I couldn't find that task. Try listing your tasks first.", <<>>)
      [] error_code = Some("VALIDATION_ERROR") ->
            Text("Invalid input: {error_message}", <<error_message>>)
      [] error_code = Some("DATABASE_ERROR") ->
            Text("Something went wrong. Please try again.", <<>>)
      [] error_code = Some("INTERNAL_ERROR") ->
            Text("An error occurred. Please try again.", <<>>)
      [] error_code = Some("INVALID_USER_ID") ->
            Text("User authentication failed. Please log in again.", <<>>)
      [] OTHER ->
            Text("Something went wrong. Please try again.", <<>>)

format_create_response(data) ==
    IF data.task.priority # None
    THEN Text("Task created: {title} (priority: {priority})",
              <<data.task.title, data.task.priority>>)
    ELSE Text("Task created: {title}", <<data.task.title>>)

\* up to the first 10 tasks, each as its number, check mark and title
ListedTasks(tasks) ==
    [i \in 1..(IF Len(tasks) > 10 THEN 10 ELSE Len(tasks)) |->
        <<i, tasks[i].completed, tasks[i].title>>]

format_list_response(data) ==
    IF data.count = 0
    THEN Text("You have no tasks", <<>>)
    ELSE IF data.count > 10
    THEN Text("You have {count} tasks: {tasks_text} (showing first 10)",
              <<data.count, ListedTasks(data.tasks)>>)
    ELSE Text("You have {count} task(s): {tasks_text}",
              <<data.count, ListedTasks(data.tasks)>>)

format_complete_response(data) ==
    IF data.task.completed
    THEN Text("Marked '{title}' as done", <<data.task.title>>)
    ELSE Text("Marked '{title}' as not done", <<data.task.title>>)

format_update_response(data) ==
    IF Truthy(data.old_title) /\ data.task.title # <<>>
       /\ Val(data.old_title) # data.task.title
    THEN Text("Updated '{old_title}' to '{new_title}'",
              <<Val(data.old_title), data.task.title>>)
    ELSE IF data.task.title # <<>>
    THEN Text("Updated task '{new_title}'", <<data.task.title>>)
    ELSE Text("Updated task {task_id}", <<data.task.id>>)

\* data has no "task" key after a delete: data.get("task", {}).get("title", "task")
format_delete_response(data) ==
    IF "task" \in DOMAIN data
    THEN Text("Deleted task '{title}'", <<data.task.title>>)
    ELSE Text("Deleted task '{title}'", <<<<"t", "a", "s", "k">>>>)

\* a formatter that looks at the success flag before the intent
format_response_failure_first(intent, tool_result) ==
    IF "success" \notin DOMAIN tool_result \/ ~tool_result.success
    THEN IF "error_code" \in DOMAIN tool_result /\ "error" \in DOMAIN tool_result
         THEN format_error_response(tool_result.error_code, tool_result.error)
         ELSE format_error_response(Some("INTERNAL_ERROR"), Some("An error occurred"))
    ELSE IF intent.operation_type = "UNKNOWN"
    THEN Text("I can only help with task management. Try 'create a task' or 'show my tasks'.", <<>>)
    ELSE Text("Something went wrong. Please try again.", <<>>)

format_response(intent, tool_result) ==
    IF intent.operation_type = "UNKNOWN"
    THEN Text("I can only help with task management. Try 'create a task' or 'show my tasks'.", <<>>)
    ELSE IF ~tool_result.success
    THEN format_error_response(tool_result.error_code, tool_result.error)
    ELSE CASE intent.operation_type = "CREATE" -> format_create_response(tool_result.data)
           [] intent.operation_type = "LIST" -> format_list_response(tool_result.data)
           [] intent.operation_type = "COMPLETE" -> format_complete_response(tool_result.data)
           [] intent.operation_type = "UPDATE" -> format_update_response(tool_result.data)
           [] intent.operation_type = "DELETE" -> format_delete_response(tool_result.data)
           [] OTHER -> Text("Something went wrong. Please try again.", <<>>)

(***************************************************************************)
(* agent/intent_parser.py: IntentClassification, with the extracted        *)
(* parameters of each intent drawn from the pools (every field always      *)
(* present, None when absent).  The confidence is in hundredths.           *)
(***************************************************************************)
Confidence(operation_type) ==
    CASE operation_type = "CREATE" -> 95
      [] operation_type = "LIST" -> 98
      [] operation_type = "COMPLETE" -> 92
      [] operation_type = "UPDATE" -> 89
      [] operation_type = "DELETE" -> 91
      [] OTHER -> 45

IntentClassification(operation_type, extracted_parameters) ==
    [operation_type |-> operation_type,
     confidence |-> Confidence(operation_type),
     extracted_parameters |-> extracted_parameters]

CreateParams ==
    [title : CreateTitles, description : Opt(Descriptions), priority : {None}]

ListParams == [completed : Opt(BOOLEAN), priority : Opt({"high"})]

CompleteParams ==
    [task_id : Opt(TaskIdPool), task_title : Opt(RefTitles), completed : BOOLEAN]

UpdateParams ==
    [task_id : Opt(TaskIdPool), task_title : Opt(RefTitles),
     new_title : Opt(NewTitles), new_description : Opt(Descriptions)]

DeleteParams == [task_id : Opt(TaskIdPool), task_title : Opt(RefTitles)]

NoParams == [empty : {TRUE}]

Intents ==
    {IntentClassification("CREATE", p) : p \in CreateParams}
    \cup {IntentClassification("LIST", p) : p \in ListParams}
    \cup {IntentClassification("COMPLETE", p) : p \in CompleteParams}
    \cup {IntentClassification("UPDATE", p) : p \in UpdateParams}
    \cup {IntentClassification("DELETE", p) : p \in DeleteParams}
    \cup {IntentClassification("UNKNOWN", p) : p \in NoParams}

\* the database calls a dispatch of the intent can reach
FaultsOf(operation_type) ==
    CASE operation_type = "CREATE" -> {"none", "op"}
      [] operation_type = "LIST" -> {"none", "list"}
      [] operation_type \in {"COMPLETE", "UPDATE", "DELETE"} -> Faults
      [] OTHER -> {"none"}

(***************************************************************************)
(* The state machine.  store is the tasks table in row order, nextId the   *)
(* table's auto-increment counter.  last records the request in progress:  *)
(* who asked, the classified intent, the dispatcher's result, the store    *)
(* operations invoked, the resolver's answer, the table before the         *)
(* dispatch and the reply text.  created[u] is the title of u's successful *)
(* CREATE while u has dispatched nothing since.                            *)
(***************************************************************************)
NoLast == [kind |-> "none"]

\* the messages and tool_calls tables of one conversation, the id counter of
\* the messages table, and the add_thread_item calls in flight
NoChat == [messages |-> <<>>, tool_calls |-> <<>>, next_id |-> 1, pending |-> <<>>]

Init ==
    /\ store = <<>>
    /\ nextId = 1
    /\ phase = "idle"
    /\ last = NoLast
    /\ created = [u \in Owners |-> None]
    /\ chat = NoChat

\* process_request, steps 3 and 4: invoke_tool, then format_response
Dispatch(user_id, intent, fault) ==
    /\ phase = "idle"
    /\ intent.operation_type = "CREATE" => nextId <= MaxTasks
    /\ LET out == invoke_tool(store, nextId, user_id, intent, fault)
       IN /\ store' = out.st
          /\ nextId' = out.nid
          /\ last' = [kind |-> "dispatch", user |-> user_id, intent |-> intent,
                      fault |-> fault, result |-> out.result, calls |-> out.calls,
                      resolved |-> out.resolved, before |-> store,
                      created_before |-> created[user_id],
                      response |-> format_response(intent, out.result)]
          /\ created' = [created EXCEPT ![user_id] =
                            IF intent.operation_type = "CREATE" /\ out.result.success
                            THEN Some(out.result.data.task.title)
                            ELSE None]
    /\ phase' = "done"
    /\ UNCHANGED chat

\* the response is returned; nothing of the request is kept
Respond ==
    /\ phase = "done"
    /\ phase' = "idle"
    /\ last' = NoLast
    /\ UNCHANGED <<store, nextId, created, chat>>

Next ==
    \/ \E user_id \in Owners, intent \in Intents :
          \E fault \in FaultsOf(intent.operation_type) :
             Dispatch(user_id, intent, fault)
    \/ Respond

Spec == Init /\ [][Next]_vars

(***************************************************************************)
(* The Task Resolver on its own: the table holds up to MaxListLen rows of  *)
(* any owners and titles, and identify_task is applied to a task           *)
(* reference.                                                              *)
(***************************************************************************)
InitResolve ==
    /\ \E n \in 0..MaxListLen :
          \E titles \in [1..n -> ResolveTitles], owners \in [1..n -> Owners] :
             store = [i \in 1..n |-> NewTask(i, owners[i], titles[i], None, None)]
    /\ nextId = Len(store) + 1
    /\ phase = "idle"
    /\ last = NoLast
    /\ created = [u \in Owners |-> None]
    /\ chat = NoChat

Resolve(user_id, task_id, task_title, list_fails) ==
    /\ phase = "idle"
    /\ last' = [kind |-> "resolve", user |-> user_id, task_id |-> task_id,
                task_title |-> task_title, list_fails |-> list_fails,
                found |-> identify_task(store, user_id, task_id, task_title,
                                        list_fails)]
    /\ phase' = "done"
    /\ UNCHANGED <<store, nextId, created, chat>>

NextResolve ==
    \/ \E user_id \in Owners, task_id \in Opt(1..(MaxListLen + 1)),
          task_title \in Opt(ResolveNeedles), list_fails \in BOOLEAN :
          Resolve(user_id, task_id, task_title, list_fails)
    \/ Respond

SpecResolve == InitResolve /\ [][NextResolve]_vars

(***************************************************************************)
(* Messages.  A message is its sequence of words; a word is written as a   *)
(* TLA+ string and stands for its characters (Chars), the message text for *)
(* the words joined by single blanks.  The words of the pool are letters   *)
(* or digits followed by at most some punctuation and hold no quotation    *)
(* mark, so that a regular expression of the source that is anchored on    *)
(* blanks or word boundaries matches whole words: `\blit\s` a word equal   *)
(* to lit, `\slit\b` a word whose stem is lit, `lit\s` a word ending in    *)
(* lit, `\slit` a word starting with lit.                                  *)
(***************************************************************************)
Chars(w) ==
    CASE w = "add" -> <<"a", "d", "d">>
      [] w = "create" -> <<"c", "r", "e", "a", "t", "e">>
      [] w = "new" -> <<"n", "e", "w">>
      [] w = "make" -> <<"m", "a", "k", "e">>
      [] w = "delete" -> <<"d", "e", "l", "e", "t", "e">>
      [] w = "remove" -> <<"r", "e", "m", "o", "v", "e">>
      [] w = "update" -> <<"u", "p", "d", "a", "t", "e">>
      [] w = "change" -> <<"c", "h", "a", "n", "g", "e">>
      [] w = "modify" -> <<"m", "o", "d", "i", "f", "y">>
      [] w = "edit" -> <<"e", "d", "i", "t">>
      [] w = "list" -> <<"l", "i", "s", "t">>
      [] w = "show" -> <<"s", "h", "o", "w">>
      [] w = "view" -> <<"v", "i", "e", "w">>
      [] w = "my" -> <<"m", "y">>
      [] w = "tasks" -> <<"t", "a", "s", "k", "s">>
      [] w = "get" -> <<"g", "e", "t">>
      [] w = "mark" -> <<"m", "a", "r", "k">>
      [] w = "complete" -> <<"c", "o", "m", "p", "l", "e", "t", "e">>
      [] w = "task" -> <<"t", "a", "s", "k">>
      [] w = "done" -> <<"d", "o", "n", "e">>
      [] w = "hi" -> <<"h", "i">>
      [] w = "hello" -> <<"h", "e", "l", "l", "o">>
      [] w = "hey" -> <<"h", "e", "y">>
      [] w = "yo" -> <<"y", "o">>
      [] w = "sup" -> <<"s", "u", "p">>
      [] w = "wassup" -> <<"w", "a", "s", "s", "u", "p">>
      [] w = "good" -> <<"g", "o", "o", "d">>
      [] w = "morning" -> <<"m", "o", "r", "n", "i", "n", "g">>
      [] w = "evening" -> <<"e", "v", "e", "n", "i", "n", "g">>
      [] w = "i" -> <<"i">>
      [] w = "went" -> <<"w", "e", "n", "t">>
      [] w = "bought" -> <<"b", "o", "u", "g", "h", "t">>
      [] w = "did" -> <<"d", "i", "d">>
      [] w = "had" -> <<"h", "a", "d">>
      [] w = "saw" -> <<"s", "a", "w">>
      [] w = "met" -> <<"m", "e", "t">>
      [] w = "today" -> <<"t", "o", "d", "a", "y">>
      [] w = "yesterday" -> <<"y", "e", "s", "t", "e", "r", "d", "a", "y">>
      [] w = "last" -> <<"l", "a", "s", "t">>
      [] w = "night" -> <<"n", "i", "g", "h", "t">>
      [] w = "just" -> <<"j", "u", "s", "t">>
      [] w = "recently" -> <<"r", "e", "c", "e", "n", "t", "l", "y">>
      [] w = "finished" -> <<"f", "i", "n", "i", "s", "h", "e", "d">>
      [] w = "thank" -> <<"t", "h", "a", "n", "k">>
      [] w = "thanks" -> <<"t", "h", "a", "n", "k", "s">>
      [] w = "appreciate" -> <<"a", "p", "p", "r", "e", "c", "i", "a", "t", "e">>
      [] w = "how" -> <<"h", "o", "w">>
      [] w = "are" -> <<"a", "r", "e">>
      [] w = "you" -> <<"y", "o", "u">>
      [] w = "what's" -> <<"w", "h", "a", "t", "'", "s">>
      [] w = "up" -> <<"u", "p">>
      [] w = "feel" -> <<"f", "e", "e", "l">>
      [] w = "i'm" -> <<"i", "'", "m">>
      [] w = "feeling" -> <<"f", "e", "e", "l", "i", "n", "g">>
      [] w = "day" -> <<"d", "a", "y">>
      [] w = "was" -> <<"w", "a", "s">>
      [] w = "a" -> <<"a">>
      [] w = "been" -> <<"b", "e", "e", "n">>
      [] w = "tired" -> <<"t", "i", "r", "e", "d">>
      [] w = "exhausted" -> <<"e", "x", "h", "a", "u", "s", "t", "e", "d">>
      [] w = "stressed" -> <<"s", "t", "r", "e", "s", "s", "e", "d">>
      [] w = "frustrated" -> <<"f", "r", "u", "s", "t", "r", "a", "t", "e", "d">>
      [] w = "happy" -> <<"h", "a", "p", "p", "y">>
      [] w = "excited" -> <<"e", "x", "c", "i", "t", "e", "d">>
      [] w = "sad" -> <<"s", "a", "d">>
      [] w = "who" -> <<"w", "h", "o">>
      [] w = "what" -> <<"w", "h", "a", "t">>
      [] w = "can" -> <<"c", "a", "n">>
      [] w = "do" -> <<"d", "o">>
      [] w = "bye" -> <<"b", "y", "e">>
      [] w = "goodbye" -> <<"g", "o", "o", "d", "b", "y", "e">>
      [] w = "see" -> <<"s", "e", "e">>
      [] w = "great" -> <<"g", "r", "e", "a", "t">>
      [] w = "awesome" -> <<"a", "w", "e", "s", "o", "m", "e">>
      [] w = "well" -> <<"w", "e", "l", "l">>
      [] w = "couldn't" -> <<"c", "o", "u", "l", "d", "n", "'", "t">>
      [] w = "didn't" -> <<"d", "i", "d", "n", "'", "t">>
      [] w = "wasn't" -> <<"w", "a", "s", "n", "'", "t">>
      [] w = "able" -> <<"a", "b", "l", "e">>
      [] w = "failed" -> <<"f", "a", "i", "l", "e", "d">>
      [] w = "struggled" -> <<"s", "t", "r", "u", "g", "g", "l", "e", "d">>
      [] w = "hard" -> <<"h", "a", "r", "d">>
      [] w = "difficult" -> <<"d", "i", "f", "f", "i", "c", "u", "l", "t">>
      [] w = "annoying" -> <<"a", "n", "n", "o", "y", "i", "n", "g">>
      [] w = "ugh" -> <<"u", "g", "h">>
      [] w = "argh" -> <<"a", "r", "g", "h">>
      [] w = "why" -> <<"w", "h", "y">>
      [] w = "is" -> <<"i", "s">>
      [] w = "hate" -> <<"h", "a", "t", "e">>
      [] w = "help" -> <<"h", "e", "l", "p">>
      [] w = "remind" -> <<"r", "e", "m", "i", "n", "d">>
      [] w = "me" -> <<"m", "e">>
      [] w = "to" -> <<"t", "o">>
      [] w = "todo" -> <<"t", "o", "d", "o">>
      [] w = "reminder" -> <<"r", "e", "m", "i", "n", "d", "e", "r">>
      [] w = "display" -> <<"d", "i", "s", "p", "l", "a", "y">>
      [] w = "check" -> <<"c", "h", "e", "c", "k">>
      [] w = "set" -> <<"s", "e", "t">>
      [] w = "as" -> <<"a", "s">>
      [] w = "completed" -> <<"c", "o", "m", "p", "l", "e", "t", "e", "d">>
      [] w = "finish" -> <<"f", "i", "n", "i", "s", "h">>
      [] w = "with" -> <<"w", "i", "t", "h">>
      [] w = "already" -> <<"a", "l", "r", "e", "a", "d", "y">>
      [] w = "undo" -> <<"u", "n", "d", "o">>
      [] w = "undone" -> <<"u", "n", "d", "o", "n", "e">>
      [] w = "completion" -> <<"c", "o", "m", "p", "l", "e", "t", "i", "o", "n">>
      [] w = "rename" -> <<"r", "e", "n", "a", "m", "e">>
      [] w = "the" -> <<"t", "h", "e">>
      [] w = "rid" -> <<"r", "i", "d">>
      [] w = "of" -> <<"o", "f">>
      [] w = "high" -> <<"h", "i", "g", "h">>
      [] w = "medium" -> <<"m", "e", "d", "i", "u", "m">>
      [] w = "low" -> <<"l", "o", "w">>
      [] w = "priority" -> <<"p", "r", "i", "o", "r", "i", "t", "y">>
      [] w = "left" -> <<"l", "e", "f", "t">>
      [] w = "incomplete" -> <<"i", "n", "c", "o", "m", "p", "l", "e", "t", "e">>
      [] w = "not" -> <<"n", "o", "t">>
      [] w = "pending" -> <<"p", "e", "n", "d", "i", "n", "g">>
      [] w = "description" -> <<"d", "e", "s", "c", "r", "i", "p", "t", "i", "o", "n">>
      [] w = "prepared" -> <<"p", "r", "e", "p", "a", "r", "e", "d">>
      [] w = "studied" -> <<"s", "t", "u", "d", "i", "e", "d">>
      [] w = "for" -> <<"f", "o", "r">>
      [] w = "it" -> <<"i", "t">>
      [] w = "that" -> <<"t", "h", "a", "t">>
      [] w = "this" -> <<"t", "h", "i", "s">>
      [] w = "now" -> <<"n", "o", "w">>
      [] w = "earlier" -> <<"e", "a", "r", "l", "i", "e", "r">>
      [] w = "buy" -> <<"b", "u", "y">>
      [] w = "milk" -> <<"m", "i", "l", "k">>
      [] w = "milk!" -> <<"m", "i", "l", "k", "!">>
      [] w = "Buy" -> <<"B", "u", "y">>
      [] w = "and" -> <<"a", "n", "d">>
      [] w = "eggs" -> <<"e", "g", "g", "s">>
      [] w = "please" -> <<"p", "l", "e", "a", "s", "e">>
      [] w = "1" -> <<"1">>
      [] w = "2" -> <<"2">>

Words(ws) == [i \in 1..Len(ws) |-> Chars(ws[i])]

RECURSIVE Join(_)
\* " ".join(words)
Join(words) ==
    IF words = <<>> THEN <<>>
    ELSE IF Len(words) = 1 THEN words[1]
    ELSE words[1] \o <<" ">> \o Join(Tail(words))

\* the text of a phrase given by its words
Phrase(ws) == Join(Words(ws))

\* the characters \w matches in lowercased text
WordChars ==
    {"a", "b", "c", "d", "e", "f", "g", "h", "i", "j", "k", "l", "m", "n",
     "o", "p", "q", "r", "s", "t", "u", "v", "w", "x", "y", "z", "0", "1",
     "2", "3", "4", "5", "6", "7", "8", "9", "_"}

StartsWith(s, lit) == Len(s) >= Len(lit) /\ SubSeq(s, 1, Len(lit)) = lit

EndsWith(s, lit) ==
    Len(s) >= Len(lit) /\ SubSeq(s, Len(s) - Len(lit) + 1, Len(s)) = lit

\* \w+
IsWord(s) == s # <<>> /\ \A i \in 1..Len(s) : s[i] \in WordChars

\* the leading run of word characters of a word
Stem(s) ==
    LET run == {k \in 0..Len(s) : \A j \in 1..k : s[j] \in WordChars}
    IN SubSeq(s, 1, CHOOSE k \in run : \A j \in run : j <= k)

\* words i.. of t, joined
Rest(t, i) == Join(SubSeq(t, i, Len(t)))

\* words i..j of t, joined
Span(t, i, j) == Join(SubSeq(t, i, j))

Least(S) == CHOOSE x \in S : \A y \in S : x <= y

\* str.strip() of blanks
Strip(s) ==
    LET keep == {k \in 1..Len(s) : s[k] # " "}
    IN IF keep = {} THEN <<>>
       ELSE SubSeq(s, Least(keep), CHOOSE k \in keep : \A j \in keep : j <= k)

\* re.sub(r'[.!?]+$', '', s)
StripEndPunctuation(s) ==
    LET keep == {k \in 0..Len(s) : k = 0 \/ s[k] \notin {".", "!", "?"}}
    IN SubSeq(s, 1, CHOOSE k \in keep : \A j \in keep : j <= k)

\* any(p in text for p in phrases)
AnyIn(phrases, text) == \E p \in phrases : Contains(Phrase(p), text)

(***************************************************************************)
(* agent/agent.py: is_casual_conversation and generate_casual_response     *)
(***************************************************************************)
explicit_task_keywords ==
    {<<"add", "task">>, <<"create", "task">>, <<"new", "task">>, <<"make", "task">>,
     <<"delete", "task">>, <<"remove", "task">>,
     <<"update", "task">>, <<"change", "task">>, <<"modify", "task">>, <<"edit", "task">>,
     <<"list", "task">>, <<"show", "task">>, <<"view", "task">>, <<"my", "tasks">>,
     <<"get", "tasks">>,
     <<"mark", "task">>, <<"complete", "task">>}

pure_greetings ==
    {<<"hi">>, <<"hello">>, <<"hey">>, <<"yo">>, <<"sup">>, <<"wassup">>,
     <<"good", "morning">>, <<"good", "evening">>}

sharing_patterns ==
    {<<"i", "went">>, <<"i", "bought">>, <<"i", "did">>, <<"i", "had">>,
     <<"i", "saw">>, <<"i", "met">>,
     <<"today", "i">>, <<"yesterday", "i">>, <<"last", "night", "i">>,
     <<"just">>, <<"recently">>}

feeling_patterns ==
    {<<"how", "are", "you">>, <<"what's", "up">>,
     <<"i", "feel">>, <<"i'm", "feeling">>, <<"feeling">>,
     <<"my", "day">>, <<"today", "was">>, <<"had", "a">>, <<"been">>,
     <<"tired">>, <<"exhausted">>, <<"stressed">>, <<"frustrated">>,
     <<"happy">>, <<"excited">>, <<"sad">>}

\* a farewell test that gives way to the word "task" as the rules before it do
Farewell_lacks_task(message_lower) ==
    /\ AnyIn({<<"bye">>, <<"goodbye">>, <<"see", "you">>, <<"good", "night">>},
             message_lower)
    /\ ~Contains(Chars("task"), message_lower)

\* line 139
Farewell(message_lower) ==
    AnyIn({<<"bye">>, <<"goodbye">>, <<"see", "you">>, <<"good", "night">>},
          message_lower)

\* the first rule of lines 82-148 that decides, 1 to 10
CasualRule(message) ==
    LET message_lower == lower(Phrase(message))
        has(w) == Contains(Chars(w), message_lower)
        no_task == ~has("task")
    IN IF AnyIn(explicit_task_keywords, message_lower) THEN 1
       ELSE IF has("mark") /\ (has("done") \/ has("complete")) THEN 2
       ELSE IF AnyIn(pure_greetings, message_lower) /\ no_task THEN 3
       ELSE IF /\ AnyIn(sharing_patterns, message_lower)
               /\ no_task
               /\ ~AnyIn({<<"mark">>, <<"complete">>, <<"done">>, <<"finished">>},
                         message_lower) THEN 4
       ELSE IF /\ AnyIn({<<"thank">>, <<"thanks">>, <<"appreciate">>}, message_lower)
               /\ no_task THEN 5
       ELSE IF AnyIn(feeling_patterns, message_lower) /\ no_task THEN 6
       ELSE IF /\ AnyIn({<<"who", "are", "you">>, <<"what", "are", "you">>,
                         <<"what", "can", "you">>, <<"how", "do", "you">>},
                        message_lower)
               /\ no_task THEN 7
       ELSE IF Farewell(message_lower) THEN 8
       ELSE IF Len(message) <= 5 /\ no_task THEN 9
       ELSE 10

\* a classifier that takes every short message as casual before anything else
is_casual_conversation_short_first(message) ==
    Len(message) <= 5 \/ CasualRule(message) \in 3..9

is_casual_conversation(message) == CasualRule(message) \in 3..9

\* the canned reply, named by its category
generate_casual_response(message) ==
    LET message_lower == lower(Phrase(message))
    IN IF AnyIn({<<"hi">>, <<"hello">>, <<"hey">>, <<"good", "morning">>,
                 <<"good", "evening">>}, message_lower) THEN "greeting"
       ELSE IF AnyIn({<<"thank">>, <<"thanks">>, <<"appreciate">>}, message_lower)
       THEN "thanks"
       ELSE IF AnyIn({<<"i", "bought">>, <<"i", "did">>, <<"i", "went">>,
                      <<"i", "had">>, <<"i", "finished">>}, message_lower)
       THEN "sharing"
       ELSE IF AnyIn({<<"great">>, <<"awesome">>, <<"happy">>, <<"excited">>,
                      <<"good", "day">>, <<"went", "well">>}, message_lower)
       THEN "positive"
       ELSE IF AnyIn({<<"tired">>, <<"exhausted">>, <<"stressed">>, <<"couldn't">>,
                      <<"didn't">>, <<"wasn't", "able">>, <<"failed">>,
                      <<"struggled">>, <<"hard">>, <<"difficult">>}, message_lower)
       THEN "negative"
       ELSE IF AnyIn({<<"frustrated">>, <<"annoying">>, <<"ugh">>, <<"argh">>,
                      <<"why", "is">>, <<"hate">>}, message_lower)
       THEN "frustration"
       ELSE IF AnyIn({<<"who", "are", "you">>, <<"what", "are", "you">>,
                      <<"what", "can", "you">>, <<"can", "you", "help">>,
                      <<"what", "do", "you", "do">>}, message_lower)
       THEN "meta"
       ELSE "default"

(***************************************************************************)
(* agent/intent_parser.py: the pattern groups of parse_intent, on the      *)
(* lowercased words t of the message                                       *)
(***************************************************************************)
Lits(S) == {Chars(l) : l \in S}

LowerWords(message) == [i \in 1..Len(message) |-> lower(Chars(message[i]))]

\* verb (?:\w+\s+)* noun\b: a verb, then a noun, only \w+ words between
VerbThenNoun(t, verbs, nouns) ==
    \E i \in 1..Len(t), j \in 1..Len(t) :
        /\ i < j
        /\ t[i] \in Lits(verbs)
        /\ Stem(t[j]) \in Lits(nouns)
        /\ \A k \in (i + 1)..(j - 1) : IsWord(t[k])

\* verb \s+.*\s+ word\b: a verb, then the word at least two places later
VerbThenLater(t, verbs, words) ==
    \E i \in 1..Len(t), k \in 1..Len(t) :
        /\ k >= i + 2
        /\ t[i] \in Lits(verbs)
        /\ Stem(t[k]) \in Lits(words)

\* first\s+second\b
Pair(t, firsts, seconds) ==
    \E i \in 1..(Len(t) - 1) :
        t[i] \in Lits(firsts) /\ Stem(t[i + 1]) \in Lits(seconds)

DoneWords == {"done", "complete", "completed", "finish", "finished"}

\* lines 74-78
create_patterns(t) ==
    \/ VerbThenNoun(t, {"create", "add", "new"}, {"task"})
    \/ \E i \in 1..(Len(t) - 2) :
          /\ t[i] = Chars("remind")
          /\ t[i + 1] = Chars("me")
          /\ Stem(t[i + 2]) = Chars("to")
    \/ \E i \in 1..(Len(t) - 2), j \in 1..Len(t) :
          /\ t[i] \in Lits({"make", "add"})
          /\ t[i + 1] = Chars("a")
          /\ j \in (i + 2)..(i + 4)
          /\ Stem(t[j]) \in Lits({"task", "todo", "reminder"})
          /\ j = i + 3 => IsWord(t[i + 2])
          /\ j = i + 4 => t[i + 2] = Chars("new") /\ IsWord(t[i + 3])

\* lines 88-92
list_patterns(t) ==
    \/ VerbThenNoun(t, {"show", "list", "display", "get", "view"}, {"task", "tasks"})
    \/ \E i \in 1..(Len(t) - 1), j \in 1..Len(t) :
          /\ t[i] = Chars("what")
          /\ j \in (i + 1)..(i + 3)
          /\ Stem(t[j]) \in Lits({"task", "tasks"})
          /\ j = i + 2 => t[i + 1] \in Lits({"are", "my"})
          /\ j = i + 3 => t[i + 1] = Chars("are") /\ t[i + 2] = Chars("my")
    \/ VerbThenNoun(t, {"see", "check"}, {"task", "tasks"})

\* lines 102-117
complete_patterns(t) ==
    \/ \E i \in 1..Len(t), k \in 1..(Len(t) - 1) :
          /\ k >= i + 2
          /\ t[i] \in Lits({"mark", "set"})
          /\ t[k] = Chars("as")
          /\ Stem(t[k + 1]) \in Lits(DoneWords)
    \/ VerbThenLater(t, {"mark", "set"}, DoneWords)
    \/ Pair(t, {"task"}, DoneWords)
    \/ VerbThenLater(t, {"complete", "completed", "finish", "finished"}, {"task"})
    \/ Pair(t, {"done"}, {"with"})
    \/ \E i \in 1..(Len(t) - 1), k \in 1..Len(t) :
          /\ k >= i + 2
          /\ t[i] = Chars("i")
          /\ Stem(t[i + 1]) \in Lits({"already", "finished", "completed"})
          /\ Stem(t[k]) \in Lits({"mark", "done", "complete", "completed"})
    \/ Pair(t, {"undo"}, {"completion", "complete", "completed"})

\* lines 127-131
update_patterns(t) ==
    \/ VerbThenLater(t, {"change", "update", "modify", "edit", "rename"}, {"to"})
    \/ Pair(t, {"update"}, {"task", "the"})
    \/ Pair(t, {"rename"}, {"task"})

\* lines 141-144
delete_patterns(t) ==
    \/ \E i \in 1..(Len(t) - 1) : t[i] \in Lits({"delete", "remove"})
    \/ \E i \in 1..(Len(t) - 3) :
          t[i] = Chars("get") /\ t[i + 1] = Chars("rid") /\ t[i + 2] = Chars("of")
    \/ VerbThenLater(t, {"delete"}, {"task"})

\* a matcher that tries the DELETE group before the others
operation_type_of_delete_first(message) ==
    LET t == LowerWords(message)
    IN IF delete_patterns(t) THEN "DELETE"
       ELSE IF create_patterns(t) THEN "CREATE"
       ELSE IF list_patterns(t) THEN "LIST"
       ELSE IF complete_patterns(t) THEN "COMPLETE"
       ELSE IF update_patterns(t) THEN "UPDATE"
       ELSE "UNKNOWN"

\* the intent of the first group with a matching pattern
operation_type_of(message) ==
    LET t == LowerWords(message)
    IN IF create_patterns(t) THEN "CREATE"
       ELSE IF list_patterns(t) THEN "LIST"
       ELSE IF complete_patterns(t) THEN "COMPLETE"
       ELSE IF update_patterns(t) THEN "UPDATE"
       ELSE IF delete_patterns(t) THEN "DELETE"
       ELSE "UNKNOWN"

(***************************************************************************)
(* agent/intent_parser.py: the parameter extractors.  A re.search takes    *)
(* the leftmost match, a lazy group the shortest.                          *)
(***************************************************************************)
\* "<level> priority", lines 197-204 and 244-251
PriorityOf(t) ==
    IF Pair(t, {"high"}, {"priority"}) THEN Some("high")
    ELSE IF Pair(t, {"medium"}, {"priority"}) THEN Some("medium")
    ELSE IF Pair(t, {"low"}, {"priority"}) THEN Some("low")
    ELSE None

_extract_create_params(message) ==
    LET t == LowerWords(message)
        n == Len(t)
        message_lower == Join(t)
        \* remind\s+me\s+to\s+(.+)
        reminds == {i \in 1..(n - 3) :
                       /\ EndsWith(t[i], Chars("remind"))
                       /\ t[i + 1] = Chars("me")
                       /\ t[i + 2] = Chars("to")}
        \* (?:create|add|new)\s+(?:a\s+)?task\s+(?:to\s+)?(.+)
        taskAt(i) == IF i + 1 <= n /\ t[i + 1] = Chars("task") THEN i + 1
                     ELSE IF i + 2 <= n /\ t[i + 1] = Chars("a")
                             /\ t[i + 2] = Chars("task") THEN i + 2
                     ELSE 0
        creates == {i \in 1..n :
                       /\ \E v \in Lits({"create", "add", "new"}) : EndsWith(t[i], v)
                       /\ taskAt(i) # 0
                       /\ taskAt(i) < n}
        afterTask == taskAt(Least(creates)) + 1
        title_match ==
            IF Contains(Phrase(<<"remind", "me", "to">>), message_lower)
            THEN IF reminds = {} THEN None ELSE Some(Rest(t, Least(reminds) + 3))
            ELSE IF Contains(Chars("create"), message_lower)
                    \/ Contains(Chars("add"), message_lower)
            THEN IF creates = {} THEN None
                 ELSE IF t[afterTask] = Chars("to") /\ afterTask < n
                 THEN Some(Rest(t, afterTask + 1))
                 ELSE Some(Rest(t, afterTask))
            ELSE None
        withs == {i \in 1..(n - 1) : EndsWith(t[i], Chars("with"))}
    IN [title |-> IF title_match # None
                  THEN StripEndPunctuation(Strip(Val(title_match)))
                  ELSE Strip(Phrase(message)),
        priority |-> PriorityOf(t),
        description |-> IF withs = {} THEN None
                        ELSE Some(Strip(Rest(t, Least(withs) + 1)))]

_extract_list_params(message) ==
    LET t == LowerWords(message)
    IN [completed |->
            IF \/ \E i \in 1..Len(t) :
                     Stem(t[i]) \in Lits({"left", "incomplete", "pending"})
               \/ Pair(t, {"not"}, {"done"})
            THEN Some(FALSE)
            ELSE IF \E i \in 1..Len(t) :
                       Stem(t[i]) \in Lits({"completed", "done", "finished"})
            THEN Some(TRUE)
            ELSE None,
        priority |-> PriorityOf(t)]

DigitChars == {"0", "1", "2", "3", "4", "5", "6", "7", "8", "9"}

DigitValue(c) ==
    CASE c = "0" -> 0 [] c = "1" -> 1 [] c = "2" -> 2 [] c = "3" -> 3
      [] c = "4" -> 4 [] c = "5" -> 5 [] c = "6" -> 6 [] c = "7" -> 7
      [] c = "8" -> 8 [] c = "9" -> 9

\* the leading run of digits of a word
DigitRun(s) ==
    LET run == {k \in 0..Len(s) : \A j \in 1..k : s[j] \in DigitChars}
    IN SubSeq(s, 1, CHOOSE k \in run : \A j \in run : j <= k)

RECURSIVE ParseInt(_)
\* int(digits)
ParseInt(s) ==
    IF s = <<>> THEN 0
    ELSE ParseInt(SubSeq(s, 1, Len(s) - 1)) * 10 + DigitValue(s[Len(s)])

\* re.search(r'task\s+(\d+)', message_lower)
TaskIdOf(t) ==
    LET at == {i \in 1..(Len(t) - 1) :
                  EndsWith(t[i], Chars("task")) /\ DigitRun(t[i + 1]) # <<>>}
    IN IF at = {} THEN None ELSE Some(ParseInt(DigitRun(t[Least(at) + 1])))

RECURSIVE DropTheTask(_)
\* lines 435-439: leading "the " and "task " are removed
DropTheTask(ws) ==
    IF Len(ws) >= 2 /\ ws[1] \in Lits({"the", "task"})
    THEN DropTheTask(Tail(ws))
    ELSE ws

_extract_delete_params(message) ==
    LET t == LowerWords(message)
        n == Len(t)
        \* (?:delete|remove)\s+(.+)$
        deletes == {i \in 1..(n - 1) :
                       \E v \in Lits({"delete", "remove"}) : EndsWith(t[i], v)}
    IN [task_id |-> TaskIdOf(t),
        task_title |-> IF deletes = {} THEN None
                       ELSE Some(Join(DropTheTask(
                                SubSeq(t, Least(deletes) + 1, n))))]

_extract_update_params(message) ==
    LET t == LowerWords(message)
        n == Len(t)
        \* (?:change|update|rename)\s+(.+?)\s+to\s+(.+)
        tos(i) == {k \in (i + 2)..(n - 1) : t[k] = Chars("to")}
        changes == {i \in 1..n :
                       /\ \E v \in Lits({"change", "update", "rename"}) :
                             EndsWith(t[i], v)
                       /\ tos(i) # {}}
        i0 == Least(changes)
        k0 == Least(tos(i0))
        \* description\s+to\s+(.+)
        descs == {i \in 1..(n - 2) :
                     EndsWith(t[i], Chars("description")) /\ t[i + 1] = Chars("to")}
    IN [task_id |-> TaskIdOf(t),
        task_title |-> IF changes = {} THEN None ELSE Some(Span(t, i0 + 1, k0 - 1)),
        new_title |-> IF changes = {} THEN None ELSE Some(Rest(t, k0 + 1)),
        new_description |-> IF descs = {} THEN None
                            ELSE Some(Rest(t, Least(descs) + 2))]

\* a head, an optional word or two, a lazy group (.+?) and a terminator, on
\* n words: starts[i] are the places the group can start for a head at word
\* i, terms the words a terminator matches at; the match is the leftmost
\* head, then the most optional words, then the nearest terminator k after
\* the start; the result is <<s, k>>, the group being words s..k-1
LazyGroup(n, starts, terms) ==
    LET ends(s) == {k \in terms : k > s}
        cands == {c \in (1..n) \X (1..n) : c[2] \in starts[c[1]] /\ ends(c[2]) # {}}
        best == CHOOSE c \in cands : \A d \in cands :
                    c[1] < d[1] \/ (c[1] = d[1] /\ c[2] >= d[2])
    IN IF cands = {} THEN None ELSE Some(<<best[2], Least(ends(best[2]))>>)

\* re.sub(r'\btask\b', '', title), on the words of the title
WithoutTask(ws) ==
    [i \in 1..Len(ws) |->
        IF Stem(ws[i]) = Chars("task") THEN SubSeq(ws[i], 5, Len(ws[i])) ELSE ws[i]]

\* re.sub(r'^word\s+', '', s)
DropLeadingWord(s, word) ==
    IF StartsWith(s, word \o <<" ">>)
    THEN Strip(SubSeq(s, Len(word) + 1, Len(s)))
    ELSE s

\* re.sub(r'\s+word$', '', s)
DropTrailingWord(s, word) ==
    IF EndsWith(s, <<" ">> \o word)
    THEN Strip(SubSeq(s, 1, Len(s) - Len(word)))
    ELSE s

\* lines 323-325 and 332: the title a pattern finds in the lowercased
\* context c, running to the end of the context, with one closing time word
\* removed
ContextTitle(c) ==
    LET n == Len(c)
        opt(i, word) == IF i <= n /\ c[i] = Chars(word) THEN {i + 1} ELSE {}
        \* heads and group starts of the three patterns
        starts1(i) ==
            IF /\ i + 1 <= n
               /\ EndsWith(c[i], Chars("i"))
               /\ c[i + 1] \in Lits({"did", "bought", "finished", "completed",
                                    "prepared", "studied"})
            THEN {s \in {i + 2} \cup opt(i + 2, "for") \cup opt(i + 2, "my")
                        \cup UNION {opt(f, "my") : f \in opt(i + 2, "for")} : s <= n}
            ELSE {}
        starts2(i) ==
            IF /\ i + 1 <= n
               /\ EndsWith(c[i], Chars("i"))
               /\ c[i + 1] \in Lits({"went", "had"})
            THEN {s \in {i + 2} \cup opt(i + 2, "to") : s <= n}
            ELSE {}
        starts3(i) ==
            IF /\ i + 1 <= n
               /\ EndsWith(c[i], Chars("just"))
               /\ c[i + 1] \in Lits({"did", "finished", "completed"})
            THEN {s \in {i + 2} : s <= n}
            ELSE {}
        first(starts(_)) ==
            LET cands == {p \in (1..n) \X (1..n) : p[2] \in starts(p[1])}
                best == CHOOSE p \in cands : \A d \in cands :
                            p[1] < d[1] \/ (p[1] = d[1] /\ p[2] >= d[2])
            IN IF cands = {} THEN 0 ELSE best[2]
        s == IF first(starts1) # 0 THEN first(starts1)
             ELSE IF first(starts2) # 0 THEN first(starts2)
             ELSE first(starts3)
        m == n - s + 1
        cut == IF m >= 2 /\ c[n] \in Lits({"today", "yesterday", "earlier"}) THEN 1
               ELSE IF m >= 3 /\ c[n - 1] = Chars("just") /\ c[n] = Chars("now") THEN 2
               ELSE 0
    IN IF s = 0 THEN None ELSE Some(Span(c, s, n - cut))

_extract_complete_params(message, context_text) ==
    LET t == LowerWords(message)
        n == Len(t)
        isDone(w) == \E d \in Lits({"done", "complete", "finished"}) : StartsWith(w, d)
        \* mark\s+(?:my\s+)?
        afterMark(i) ==
            IF EndsWith(t[i], Chars("mark"))
            THEN {i + 1} \cup (IF i + 1 <= n /\ t[i + 1] = Chars("my") THEN {i + 2} ELSE {})
            ELSE {}
        \* i\s+(?:prepared|finished|completed|did|studied)\s+(?:for\s+)?(?:my\s+)?
        afterDid(i) ==
            IF /\ i + 1 <= n
               /\ EndsWith(t[i], Chars("i"))
               /\ t[i + 1] \in Lits({"prepared", "finished", "completed", "did",
                                    "studied"})
            THEN LET for == IF i + 2 <= n /\ t[i + 2] = Chars("for") THEN {i + 3} ELSE {}
                     my(S) == {s + 1 : s \in {x \in S : x <= n /\ t[x] = Chars("my")}}
                 IN {i + 2} \cup for \cup my({i + 2} \cup for)
            ELSE {}
        group(g) == Span(t, Val(g)[1], Val(g)[2] - 1)
        \* strategy 2: (.+?)\s+task\s+(?:done|complete|finished)
        g2 == LazyGroup(n, [i \in 1..n |-> afterMark(i)],
                        {k \in 1..n : /\ t[k] = Chars("task")
                                      /\ k + 1 <= n
                                      /\ isDone(t[k + 1])})
        \* strategy 3: (.+?)\s+(?:done|complete|finished)
        g3 == LazyGroup(n, [i \in 1..n |-> afterMark(i)],
                        {k \in 1..n : isDone(t[k])})
        \* strategy 4: (.+?)\s+as\s+(?:done|complete|finished)
        g4 == LazyGroup(n, [i \in 1..n |-> afterMark(i)],
                        {k \in 1..n : /\ t[k] = Chars("as")
                                      /\ k + 1 <= n
                                      /\ isDone(t[k + 1])})
        \* strategy 5: (.+?)\s+(?:mark|done|complete)
        g5 == LazyGroup(n, [i \in 1..n |-> afterDid(i)],
                        {k \in 1..n : \E d \in Lits({"mark", "done", "complete"}) :
                                          StartsWith(t[k], d)})
        title3 == IF g3 = None THEN <<>>
                  ELSE Strip(Join(WithoutTask(
                           SubSeq(t, Val(g3)[1], Val(g3)[2] - 1))))
        has_pronoun == \E i \in 1..n : Stem(t[i]) \in Lits({"it", "that", "this"})
        fromContext == IF context_text # <<>> /\ has_pronoun
                       THEN ContextTitle(LowerWords(context_text))
                       ELSE None
        title == IF g2 # None THEN Some(group(g2))
                 ELSE IF title3 # <<>> THEN Some(title3)
                 ELSE IF g4 # None THEN Some(group(g4))
                 ELSE IF g5 # None THEN Some(group(g5))
                 ELSE fromContext
    IN [task_id |-> TaskIdOf(t),
        task_title |->
            IF Truthy(title)
            THEN Some(DropTrailingWord(
                        DropLeadingWord(
                            DropLeadingWord(Val(title), Chars("my")),
                            Chars("the")),
                        Chars("task")))
            ELSE None,
        completed |-> ~(\E i \in 1..n : Stem(t[i]) = Chars("undo"))]

\* a context built from every entry of the history, whoever wrote it
ContextText_every_entry(conversation_history) ==
    LET RECURSIVE Concat(_)
        Concat(ms) == IF ms = <<>> THEN <<>> ELSE Head(ms).content \o Concat(Tail(ms))
    IN Concat(conversation_history)

\* lines 61-69: the words of the last 3 user messages among the last 6
\* entries of the history
ContextText(conversation_history) ==
    LET h == conversation_history
        recent == SubSeq(h, Max(1, Len(h) - 5), Len(h))
        users == SelectSeq(recent, LAMBDA msg : msg.role = "user")
        last3 == SubSeq(users, Max(1, Len(users) - 2), Len(users))
        RECURSIVE Concat(_)
        Concat(ms) == IF ms = <<>> THEN <<>> ELSE Head(ms).content \o Concat(Tail(ms))
    IN Concat(last3)

\* lines 64-67: msg["content"] of a user entry that has no content raises
\* KeyError before any pattern is tried
ContextRaises(conversation_history) ==
    LET h == conversation_history
    IN \E i \in Max(1, Len(h) - 5)..Len(h) :
          h[i].role = "user" /\ "content" \notin DOMAIN h[i]

parse_intent(message, conversation_history) ==
    LET operation_type == operation_type_of(message)
    IN IntentClassification(operation_type,
          CASE operation_type = "CREATE" -> _extract_create_params(message)
            [] operation_type = "LIST" -> _extract_list_params(message)
            [] operation_type = "COMPLETE" ->
                   _extract_complete_params(message, ContextText(conversation_history))
            [] operation_type = "UPDATE" -> _extract_update_params(message)
            [] operation_type = "DELETE" -> _extract_delete_params(message)
            [] OTHER -> [empty |-> TRUE])

(***************************************************************************)
(* agent/agent.py: process_request on a message.  The messages of the pool *)
(* are an opener, a request and what is asked for, each possibly empty,    *)
(* and a few requests on existing tasks.                                   *)
(***************************************************************************)
\* the tasks the requests of SpecMessage may create
MaxMessageTasks == 1

Openers == {<<>>, <<"hi">>}

Cores ==
    {<<>>,
     <<"remind", "me", "to">>,
     <<"add", "a", "task", "to">>,
     <<"add", "a", "high", "priority", "task", "to">>,
     <<"new", "task">>,
     <<"show", "my", "tasks">>}

Tails ==
    {<<>>,
     <<"buy", "milk">>,
     <<"Buy", "milk", "and", "get", "it", "done">>}

OtherMessages ==
    {<<"delete", "buy", "milk">>,
     <<"delete", "task", "1">>,
     <<"mark", "buy", "milk", "task", "done">>,
     <<"change", "buy", "milk", "to", "eggs">>,
     <<"update", "task", "1">>,
     <<"undo", "completion", "of", "it">>,
     <<"undo", "completion", "of", "task", "1">>,
     <<"mark", "undone", "task", "1", "done">>,
     <<"thanks">>,
     <<"bye">>}

Messages ==
    ({o \o c \o t : o \in Openers, c \in Cores, t \in Tails} \ {<<>>})
    \cup OtherMessages

Histories ==
    {<<>>, <<[role |-> "user", content |-> <<"i", "bought", "milk">>]>>}

\* histories with an entry that has no content
MalformedHistories == {<<[role |-> "user"]>>}

\* AgentResponse.metadata without execution_time_ms; confidence in hundredths
Metadata(intent, tool_called, confidence) ==
    [intent |-> intent, tool_called |-> tool_called, confidence |-> confidence]

\* an error reply that quotes the exception
ErrorResponse_quotes_exception(e) ==
    [response |-> Text("Oops, something went wrong on my end! ({error})", <<e>>),
     metadata |-> [intent |-> "ERROR", tool_called |-> None, confidence |-> 0,
                   error |-> e]]

\* lines 264-275: the AgentResponse of the except clause, e being str(e)
ErrorResponse(e) ==
    [response |-> Text("Oops, something went wrong on my end! Could you try that again?",
                       <<>>),
     metadata |-> [intent |-> "ERROR", tool_called |-> None, confidence |-> 0,
                   error |-> e]]

\* int((time.time() - start) * 1000) for an elapsed time in microseconds, under
\* max(1, .) on the paths that return normally and bare in the except clause
execution_time_ms(elapsed_us, in_except) ==
    IF in_except THEN elapsed_us \div 1000 ELSE Max(1, elapsed_us \div 1000)

\* process_request when invoke_tool takes tool_us microseconds and the whole
\* request total_us; metadata carries execution_time_ms, and the
\* execution_time_ms of the tool result is kept in tool_execution_time_ms
ProcessRequestAt(user_id, message, conversation_history, fault, tool_us, total_us) ==
    /\ phase = "idle"
    /\ IF is_casual_conversation(message)
       THEN /\ fault = "none"
            /\ last' = [kind |-> "request", user |-> user_id, message |-> message,
                        history |-> conversation_history,
                        casual |-> TRUE, raised |-> None,
                        calls |-> <<>>, before |-> store,
                        metadata |-> Metadata("CASUAL_CONVERSATION", None, 100)
                           @@ [execution_time_ms |->
                                  execution_time_ms(total_us, FALSE)],
                        response |-> Text(generate_casual_response(message), <<>>)]
            /\ created' = [created EXCEPT ![user_id] = None]
            /\ UNCHANGED <<store, nextId>>
       ELSE IF ContextRaises(conversation_history)
       THEN /\ fault = "none"
            /\ last' = [kind |-> "request", user |-> user_id, message |-> message,
                        history |-> conversation_history,
                        casual |-> FALSE, raised |-> Some("'content'"),
                        calls |-> <<>>, before |-> store,
                        metadata |-> ErrorResponse("'content'").metadata
                           @@ [execution_time_ms |->
                                  execution_time_ms(total_us, TRUE)],
                        response |-> ErrorResponse("'content'").response]
            /\ created' = [created EXCEPT ![user_id] = None]
            /\ UNCHANGED <<store, nextId>>
       ELSE \E intent \in {parse_intent(message, conversation_history)} :
            /\ fault \in FaultsOf(intent.operation_type)
            /\ intent.operation_type = "CREATE" => nextId <= MaxMessageTasks
            /\ \E out \in {invoke_tool(store, nextId, user_id, intent, fault)} :
               /\ store' = out.st
               /\ nextId' = out.nid
               /\ last' = [kind |-> "request", user |-> user_id, message |-> message,
                           history |-> conversation_history,
                           casual |-> FALSE, raised |-> None,
                           calls |-> out.calls, before |-> store,
                           metadata |-> Metadata(intent.operation_type,
                                                 out.result.tool_name,
                                                 intent.confidence)
                              @@ [execution_time_ms |->
                                     execution_time_ms(total_us, FALSE)],
                           tool_execution_time_ms |->
                              execution_time_ms(tool_us, FALSE),
                           response |-> format_response(intent, out.result),
                           intent |-> intent, fault |-> fault,
                           result |-> out.result, resolved |-> out.resolved]
               /\ created' = [created EXCEPT ![user_id] =
                                 IF intent.operation_type = "CREATE"
                                    /\ out.result.success
                                 THEN Some(out.result.data.task.title)
                                 ELSE None]
    /\ phase' = "done"

\* process_request taking one millisecond, all of it in invoke_tool
ProcessRequest(user_id, message, conversation_history, fault) ==
    /\ ProcessRequestAt(user_id, message, conversation_history, fault, 1000, 1000)
    /\ UNCHANGED chat

NextMessage ==
    \/ \E user_id \in Owners, message \in Messages,
          conversation_history \in Histories \cup MalformedHistories,
          fault \in Faults :
          ProcessRequest(user_id, message, conversation_history, fault)
    \/ Respond

SpecMessage == Init /\ [][NextMessage]_vars

(***************************************************************************)
(* agent/agent.py: is_casual_conversation on its own.  A message is any    *)
(* selection of the fragments below, in their order: each fragment carries *)
(* one of the features the rules test, the last one takes the message past *)
(* five words.                                                             *)
(***************************************************************************)
CasualFragments ==
    <<<<"mark">>, <<"done">>, <<"hi">>, <<"i", "went">>, <<"thanks">>, <<"tired">>,
      <<"who", "are", "you">>, <<"bye">>, <<"task">>, <<"add", "task">>,
      <<"buy", "milk", "and", "eggs", "please", "now">>>>

\* the picked fragments from the i-th on, one after the other
RECURSIVE Gathered(_, _, _)
Gathered(fragments, pick, i) ==
    IF i > Len(fragments)
    THEN <<>>
    ELSE (IF pick[i] THEN fragments[i] ELSE <<>>) \o Gathered(fragments, pick, i + 1)

CasualMessages ==
    {Gathered(CasualFragments, pick, 1) :
        pick \in [1..Len(CasualFragments) -> BOOLEAN]}

Classify(message) ==
    /\ phase = "idle"
    /\ last' = [kind |-> "classify", message |-> message,
                casual |-> is_casual_conversation(message)]
    /\ phase' = "done"
    /\ UNCHANGED <<store, nextId, created, chat>>

NextCasual ==
    \/ \E message \in CasualMessages : Classify(message)
    \/ Respond

SpecCasual == Init /\ [][NextCasual]_vars

(***************************************************************************)
(* agent/intent_parser.py: parse_intent on its own, and invoke_tool on an  *)
(* IntentClassification of any confidence.  A message is any selection of  *)
(* the fragments below, in their order or in the opposite one: the first   *)
(* five match one pattern group each.                                      *)
(***************************************************************************)
IntentFragments ==
    <<<<"remind", "me", "to">>, <<"show", "my", "tasks">>, <<"done", "with", "it">>,
      <<"rename", "it", "to", "milk">>, <<"remove", "it">>, <<"please">>,
      <<"buy", "eggs">>>>

Reverse(s) == [i \in 1..Len(s) |-> s[Len(s) + 1 - i]]

IntentMessages ==
    {Gathered(fragments, pick, 1) :
        fragments \in {IntentFragments, Reverse(IntentFragments)},
        pick \in [1..Len(IntentFragments) -> BOOLEAN]}

\* confidences in hundredths, none of them the fixed one of an intent
Confidences == {0, 50, 100}

Parse(message, conversation_history) ==
    /\ phase = "idle"
    /\ last' = [kind |-> "parse", message |-> message,
                history |-> conversation_history,
                intent |-> parse_intent(message, conversation_history)]
    /\ phase' = "done"
    /\ UNCHANGED <<store, nextId, created, chat>>

\* invoke_tool and format_response on an intent that carries the confidence
DispatchAt(user_id, intent, confidence, fault) ==
    /\ intent.operation_type = "CREATE" => nextId <= MaxMessageTasks
    /\ Dispatch(user_id, [intent EXCEPT !.confidence = confidence], fault)

NextIntent ==
    \/ \E message \in IntentMessages, conversation_history \in Histories :
          Parse(message, conversation_history)
    \/ \E user_id \in Owners, intent \in Intents, confidence \in Confidences :
          \E fault \in FaultsOf(intent.operation_type) :
             DispatchAt(user_id, intent, confidence, fault)
    \/ Respond

SpecIntent == Init /\ [][NextIntent]_vars

(***************************************************************************)
(* agent/response_formatter.py: format_response on failed tool results of  *)
(* any intent, error code and error string.                                *)
(***************************************************************************)
OperationTypes == {"CREATE", "LIST", "COMPLETE", "UPDATE", "DELETE", "UNKNOWN"}

ErrorCodes ==
    {"TASK_NOT_FOUND", "VALIDATION_ERROR", "DATABASE_ERROR", "INTERNAL_ERROR",
     "INVALID_USER_ID", "UNKNOWN_INTENT"}

ErrorTexts == {"Task not found", "Task title must be 500 characters or less", ""}

Format(operation_type, error_code, error) ==
    /\ phase = "idle"
    /\ LET intent == IntentClassification(operation_type, [empty |-> TRUE])
           tool_result == [tool_name |-> None, success |-> FALSE, data |-> NoData,
                           error |-> error, error_code |-> error_code]
       IN last' = [kind |-> "format", intent |-> intent, result |-> tool_result,
                   response |-> format_response(intent, tool_result)]
    /\ phase' = "done"
    /\ UNCHANGED <<store, nextId, created, chat>>

\* results handed to the formatter with an UNKNOWN intent: the dispatcher's
\* own, a failure of a tool, successes with and without data, and
\* dictionaries that lack fields
UnknownResults ==
    {UnknownIntentResult,
     FailedResult(Some("list_tasks"), "Failed to list tasks due to a database error",
                  "DATABASE_ERROR"),
     FailedResult(Some("delete_task"), "Task not found", "TASK_NOT_FOUND"),
     [tool_name |-> Some("list_tasks"), success |-> TRUE,
      data |-> [kind |-> "list", tasks |-> <<>>, count |-> 0],
      error |-> None, error_code |-> None],
     [tool_name |-> None, success |-> TRUE, data |-> NoData,
      error |-> None, error_code |-> None],
     [success |-> TRUE],
     [success |-> FALSE],
     [tool_name |-> None]}

FormatUnknown(tool_result) ==
    /\ phase = "idle"
    /\ LET intent == IntentClassification("UNKNOWN", [empty |-> TRUE])
       IN last' = [kind |-> "format", intent |-> intent, result |-> tool_result,
                   response |-> format_response(intent, tool_result)]
    /\ phase' = "done"
    /\ UNCHANGED <<store, nextId, created, chat>>

NextFormat ==
    \/ \E operation_type \in OperationTypes, error_code \in Opt(ErrorCodes),
          error \in Opt(ErrorTexts) :
          Format(operation_type, error_code, error)
    \/ \E tool_result \in UnknownResults : FormatUnknown(tool_result)
    \/ Respond

SpecFormat == Init /\ [][NextFormat]_vars

(***************************************************************************)
(* The length limits of the input schemas: CREATE and UPDATE dispatches    *)
(* whose title and description are empty, short, exactly at the limit and  *)
(* one character over it, with and without the database raising.           *)
(***************************************************************************)
\* a text of n characters
Filled(n) == [i \in 1..n |-> "a"]

LengthIntents ==
    {IntentClassification("CREATE", p) :
        p \in [title : {<<>>, T_ab, Filled(TitleMaxLength), Filled(TitleMaxLength + 1)},
               description : Opt({D_d, Filled(DescriptionMaxLength),
                                  Filled(DescriptionMaxLength + 1)}),
               priority : {None}]}
    \cup {IntentClassification("UPDATE", p) :
        p \in [task_id : {Some(1)}, task_title : {None},
               new_title : Opt({<<>>, T_ba, Filled(TitleMaxLength),
                                Filled(TitleMaxLength + 1)}),
               new_description : Opt({<<>>, Filled(DescriptionMaxLength),
                                      Filled(DescriptionMaxLength + 1)})]}

NextLength ==
    \/ \E intents \in {LengthIntents} :
          \E intent \in intents, fault \in {"none", "op"} :
             Dispatch("u1", intent, fault)
    \/ Respond

SpecLength == Init /\ [][NextLength]_vars

(***************************************************************************)
(* process_request under the clock: the elapsed times of invoke_tool and   *)
(* of the whole request, in microseconds, from under a millisecond to      *)
(* several.                                                                *)
(***************************************************************************)
MaxElapsedUs == 2500

ElapsedUs == {0, 999, 1000, MaxElapsedUs}

ClockMessages ==
    {<<"thanks">>, <<"new", "task">>, <<"show", "my", "tasks">>,
     <<"delete", "task", "1">>, <<"update", "task", "1">>}

NextClock ==
    \/ \E user_id \in Owners, message \in ClockMessages,
          conversation_history \in Histories \cup MalformedHistories,
          fault \in Faults, tool_us \in ElapsedUs, total_us \in ElapsedUs :
          /\ tool_us <= total_us
          /\ ProcessRequestAt(user_id, message, conversation_history, fault,
                              tool_us, total_us)
          /\ UNCHANGED chat
    \/ Respond

SpecClock == Init /\ [][NextClock]_vars

(***************************************************************************)
(* Two requests of one owner in flight at once.  Each invoker runs in two  *)
(* steps, the list fetch of identify_task and then the call of its tool,   *)
(* each in a database session of its own; the steps of the two requests    *)
(* interleave in every order.  last.reqs holds for each request its        *)
(* intent, where it stands, what the resolver returned and its result;     *)
(* last.order the requests in the order of their tool calls.               *)
(***************************************************************************)
RaceIntents ==
    {IntentClassification("DELETE", [task_id |-> Some(1), task_title |-> None]),
     IntentClassification("DELETE", [task_id |-> None, task_title |-> Some(T_ab)]),
     IntentClassification("COMPLETE",
        [task_id |-> Some(1), task_title |-> None, completed |-> TRUE]),
     IntentClassification("UPDATE",
        [task_id |-> None, task_title |-> Some(T_ab), new_title |-> Some(T_ba),
         new_description |-> None])}

InitRace ==
    /\ \E owner \in Owners, title \in {T_Ab, T_ba} :
          store = <<NewTask(1, "u1", T_ab, None, None),
                    NewTask(2, owner, title, None, None)>>
    /\ nextId = 3
    /\ phase = "race"
    /\ \E first \in RaceIntents, second \in RaceIntents :
          /\ "DELETE" \in {first.operation_type, second.operation_type}
          /\ last = [kind |-> "race", user |-> "u1", before |-> store, order |-> <<>>,
                     reqs |-> [r \in 1..2 |->
                                 [intent |-> IF r = 1 THEN first ELSE second,
                                  pc |-> "fetch", resolved |-> None,
                                  result |-> NoData]]]
    /\ created = [u \in Owners |-> None]
    /\ chat = NoChat

\* the first step of an invoker: identify_task on the table as it is now, and
\* the TASK_NOT_FOUND result when it returns None
Fetch(r) ==
    /\ phase = "race"
    /\ last.reqs[r].pc = "fetch"
    /\ LET req == last.reqs[r]
           p == req.intent.extracted_parameters
           task_id == identify_task(store, last.user, p.task_id, p.task_title, FALSE)
           tool_name == CASE req.intent.operation_type = "DELETE" -> "delete_task"
                          [] req.intent.operation_type = "COMPLETE" -> "complete_task"
                          [] OTHER -> "update_task"
       IN last' = [last EXCEPT !.reqs[r] =
                      IF task_id = None
                      THEN [req EXCEPT !.pc = "done",
                                       !.result = TaskNotFound(tool_name)]
                      ELSE [req EXCEPT !.pc = "call", !.resolved = task_id]]
    /\ UNCHANGED <<store, nextId, phase, created, chat>>

\* the second step of an invoker: the call of its tool with the id resolved
\* in the first step, on the table as it is now
Call(r) ==
    /\ phase = "race"
    /\ last.reqs[r].pc = "call"
    /\ LET req == last.reqs[r]
           p == req.intent.extracted_parameters
           task_id == Val(req.resolved)
           out == CASE req.intent.operation_type = "DELETE" ->
                         delete_task(store, last.user, task_id, FALSE)
                    [] req.intent.operation_type = "COMPLETE" ->
                         complete_task(store, last.user, task_id, p.completed, FALSE)
                    [] OTHER ->
                         update_task(store, last.user, task_id, p.new_title,
                                     p.new_description, FALSE)
           tool_name == CASE req.intent.operation_type = "DELETE" -> "delete_task"
                          [] req.intent.operation_type = "COMPLETE" -> "complete_task"
                          [] OTHER -> "update_task"
       IN /\ store' = out.st
          /\ last' = [last EXCEPT
                         !.order = Append(@, r),
                         !.reqs[r] = [req EXCEPT
                                         !.pc = "done",
                                         !.result = ToolResult(Some(tool_name),
                                                               out.resp)]]
    /\ UNCHANGED <<nextId, phase, created, chat>>

NextRace == \E r \in 1..2 : Fetch(r) \/ Call(r)

SpecRace == InitRace /\ [][NextRace]_vars

(***************************************************************************)
(* api/v1/endpoints/chatkit.py: DatabaseStore on the messages of one       *)
(* conversation, which belongs to u1.  add_thread_item reads the highest   *)
(* sequence number and then commits a row with the next one; between the   *)
(* two steps other calls, each in a session of its own, may run.  The      *)
(* table has the constraint unique(conversation_id, sequence_number).      *)
(***************************************************************************)
MaxCallers == 2
MaxMessages == 3

ThreadOwner == "u1"

\* select ... order_by(sequence_number.desc()).first(), then lines 323
NextSequence(messages) ==
    IF messages = <<>>
    THEN 0
    ELSE LET top == CHOOSE i \in 1..Len(messages) :
                       \A j \in 1..Len(messages) :
                          messages[j].sequence_number <= messages[i].sequence_number
         IN messages[top].sequence_number + 1

InitThread ==
    /\ store = <<>>
    /\ nextId = 1
    /\ phase = "idle"
    /\ last = NoLast
    /\ created = [u \in Owners |-> None]
    /\ chat = [NoChat EXCEPT !.pending = [c \in 1..MaxCallers |-> None]]

\* add_thread_item, lines 301-323: the conversation check and the read of
\* the next sequence number
add_thread_item_read(c, user_id, role, content) ==
    /\ chat.pending[c] = None
    /\ chat.next_id + Cardinality({d \in 1..MaxCallers : chat.pending[d] # None})
          <= MaxMessages
    /\ IF user_id # ThreadOwner
       THEN /\ last' = [kind |-> "add_thread_item", caller |-> c,
                        raised |-> Some("NotFoundError")]
            /\ UNCHANGED chat
       ELSE /\ chat' = [chat EXCEPT !.pending[c] =
                          Some([role |-> role, content |-> content,
                                sequence_number |-> NextSequence(chat.messages)])]
            /\ last' = [kind |-> "reading", caller |-> c]
    /\ UNCHANGED <<store, nextId, phase, created>>

\* add_thread_item, lines 339-355: the row is added and committed; the commit
\* raises IntegrityError when a row of the conversation has the sequence number
add_thread_item_commit(c) ==
    /\ chat.pending[c] # None
    /\ LET item == Val(chat.pending[c])
       IN IF \E i \in 1..Len(chat.messages) :
                chat.messages[i].sequence_number = item.sequence_number
          THEN /\ chat' = [chat EXCEPT !.pending[c] = None]
               /\ last' = [kind |-> "add_thread_item", caller |-> c,
                           raised |-> Some("IntegrityError")]
          ELSE /\ chat' = [chat EXCEPT
                              !.pending[c] = None,
                              !.next_id = @ + 1,
                              !.messages = Append(@,
                                 [id |-> chat.next_id, role |-> item.role,
                                  content |-> item.content,
                                  sequence_number |-> item.sequence_number])]
               /\ last' = [kind |-> "add_thread_item", caller |-> c,
                           raised |-> None]
    /\ UNCHANGED <<store, nextId, phase, created>>

delete_thread_item(user_id, item_id) ==
    /\ IF user_id # ThreadOwner
       THEN /\ last' = [kind |-> "delete_thread_item", raised |-> Some("NotFoundError")]
            /\ UNCHANGED chat
       ELSE /\ chat' = [chat EXCEPT
                           !.messages = SelectSeq(@, LAMBDA m : m.id # item_id)]
            /\ last' = [kind |-> "delete_thread_item", raised |-> None]
    /\ UNCHANGED <<store, nextId, phase, created>>

NextThread ==
    \/ \E c \in 1..MaxCallers, user_id \in Owners, role \in {"user", "assistant"} :
          add_thread_item_read(c, user_id, role, <<"hi">>)
    \/ \E c \in 1..MaxCallers : add_thread_item_commit(c)
    \/ \E user_id \in Owners, item_id \in 1..MaxMessages :
          delete_thread_item(user_id, item_id)

SpecThread == InitThread /\ [][NextThread]_vars

(***************************************************************************)
(* api/v1/endpoints/chatkit.py: TaskAssistantServer.respond, one chat turn *)
(* of the owner of the conversation.  The user's item is stored through    *)
(* save_item; respond reads the history, calls process_request, the        *)
(* assistant's item is stored, and the tool call of the turn is recorded.  *)
(***************************************************************************)
TurnMessages ==
    {<<"thanks">>, <<"new", "task">>, <<"delete", "task", "1">>}

\* lines 295-297: add_thread_item in one step
save_item(user_id, role, content) ==
    /\ phase = "idle"
    /\ user_id = ThreadOwner
    /\ chat.next_id < MaxMessages
    /\ chat' = [chat EXCEPT
                   !.next_id = @ + 1,
                   !.messages = Append(@,
                      [id |-> chat.next_id, role |-> role, content |-> content,
                       sequence_number |-> NextSequence(chat.messages)])]
    /\ UNCHANGED <<store, nextId, phase, last, created>>

\* lines 452-467: the last 10 messages in the order of their sequence numbers
RecentHistory(messages) ==
    [i \in 1..(Len(messages) - Max(1, Len(messages) - 9) + 1) |->
        LET msg == messages[Max(1, Len(messages) - 9) + i - 1]
        IN [role |-> msg.role, content |-> msg.content]]

respond(user_id, user_text, fault) ==
    /\ user_id = ThreadOwner
    /\ chat.next_id <= MaxMessages
    /\ ProcessRequestAt(user_id, user_text, RecentHistory(chat.messages), fault,
                        1000, 1000)
    /\ LET assistant_message ==
              [id |-> chat.next_id, role |-> "assistant", content |-> last'.response,
               sequence_number |-> NextSequence(chat.messages)]
           tool_called == last'.metadata.tool_called
       IN chat' = [chat EXCEPT
                     !.next_id = @ + 1,
                     !.messages = Append(@, assistant_message),
                     !.tool_calls =
                        IF tool_called # None
                        THEN Append(@, [message_id |-> assistant_message.id,
                                        tool_name |-> Val(tool_called),
                                        status |-> "success"])
                        ELSE @]

NextTurn ==
    \/ \E user_text \in TurnMessages : save_item(ThreadOwner, "user", user_text)
    \/ \E user_text \in TurnMessages, fault \in Faults :
          respond(ThreadOwner, user_text, fault)
    \/ Respond

SpecTurn == Init /\ [][NextTurn]_vars

(***************************************************************************)
(* Properties                                                              *)
(***************************************************************************)
Dispatched(operation_type) ==
    /\ phase = "done"
    /\ last.kind = "dispatch"
    /\ last.intent.operation_type = operation_type

TasksOf(st, user_id) == SelectSeq(st, LAMBDA t : t.user_id = user_id)

\* the task records a result hands back to the caller
ReturnedTasks(result) ==
    IF result.data.kind = "tasks"
    THEN {result.data.tasks[i] : i \in 1..Len(result.data.tasks)}
    ELSE IF result.data.kind = "task"
    THEN {result.data.task}
    ELSE {}

\* C1: a request of owner A returns only tasks of A and leaves the tasks of
\* every other owner, with all their fields, as they were before it
C1_OwnerIsolation ==
    (phase = "done" /\ last.kind = "dispatch") =>
        /\ \A o \in Owners \ {last.user} :
              TasksOf(store, o) = TasksOf(last.before, o)
        /\ \A t \in ReturnedTasks(last.result) : t.user_id = last.user

C1_Witness ==
    /\ phase = "done"
    /\ last.kind = "dispatch"
    /\ last.result.success
    /\ last.intent.operation_type \in {"COMPLETE", "UPDATE", "DELETE"}
    /\ store # last.before
    /\ \E o \in Owners \ {last.user} : TasksOf(store, o) # <<>>

\* ids that no task of any owner carries in table st
GhostIds(st) == (1..(MaxTasks + 1)) \ {st[i].id : i \in 1..Len(st)}

ForeignId(st, user_id, task_id) ==
    \E i \in 1..Len(st) : st[i].id = task_id /\ st[i].user_id # user_id

\* C2: a DELETE by A naming an id that belongs to B returns TASK_NOT_FOUND,
\* leaves the table as it was, and its tool result and reply are those of a
\* DELETE by A naming an id that no task has
C2_DeleteForeignIndistinguishable ==
    (/\ Dispatched("DELETE")
     /\ last.intent.extracted_parameters.task_id # None
     /\ ForeignId(last.before, last.user,
                  Val(last.intent.extracted_parameters.task_id))) =>
        /\ last.result.error_code = Some("TASK_NOT_FOUND")
        /\ ~last.result.success
        /\ store = last.before
        /\ \A ghost \in GhostIds(last.before), fault \in Faults :
              LET intent == IntentClassification("DELETE",
                                [last.intent.extracted_parameters
                                    EXCEPT !.task_id = Some(ghost)])
                  out == invoke_tool(last.before, nextId, last.user, intent, fault)
              IN /\ out.result = last.result
                 /\ format_response(intent, out.result) = last.response
                 /\ out.st = store

C2_Witness ==
    /\ Dispatched("DELETE")
    /\ last.intent.extracted_parameters.task_id # None
    /\ ForeignId(last.before, last.user,
                 Val(last.intent.extracted_parameters.task_id))
    /\ last.fault = "none"

UpdateWithoutFields ==
    /\ Dispatched("UPDATE")
    /\ last.intent.extracted_parameters.new_title = None
    /\ last.intent.extracted_parameters.new_description = None

\* C3 as stated: an UPDATE with neither new_title nor new_description
\* returns VALIDATION_ERROR and invokes no task-store operation, for any
\* task reference
C3_Original ==
    UpdateWithoutFields =>
        /\ last.result.error_code = Some("VALIDATION_ERROR")
        /\ last.calls = <<>>

\* C3 amended: such an UPDATE never invokes update_task and leaves the table
\* unchanged; the resolver's list_tasks fetch is the only store call; the
\* result is VALIDATION_ERROR when the resolver found the task and
\* TASK_NOT_FOUND when it did not
C3_UpdateWithoutFields ==
    UpdateWithoutFields =>
        /\ last.calls = <<"list_tasks">>
        /\ store = last.before
        /\ ~last.result.success
        /\ last.resolved # None => last.result.error_code = Some("VALIDATION_ERROR")
        /\ last.resolved = None => last.result.error_code = Some("TASK_NOT_FOUND")

C3_Witness ==
    /\ UpdateWithoutFields
    /\ last.resolved # None
    /\ last.result.error_code = Some("VALIDATION_ERROR")

InCalls(name) == \E i \in 1..Len(last.calls) : last.calls[i] = name

\* C4: when the resolver returns NOT_FOUND in a COMPLETE, UPDATE or DELETE
\* dispatch, the result is TASK_NOT_FOUND, none of complete_task, update_task
\* and delete_task is called, and the table is unchanged
C4_NotFoundTouchesNothing ==
    (/\ phase = "done"
     /\ last.kind = "dispatch"
     /\ last.intent.operation_type \in {"COMPLETE", "UPDATE", "DELETE"}
     /\ last.resolved = None) =>
        /\ last.result.error_code = Some("TASK_NOT_FOUND")
        /\ ~last.result.success
        /\ ~InCalls("complete_task")
        /\ ~InCalls("update_task")
        /\ ~InCalls("delete_task")
        /\ store = last.before

C4_Witness ==
    /\ phase = "done"
    /\ last.kind = "dispatch"
    /\ last.intent.operation_type \in {"COMPLETE", "UPDATE", "DELETE"}
    /\ last.resolved = None
    /\ last.fault = "none"
    /\ TasksOf(store, last.user) # <<>>

UnfilteredList ==
    /\ Dispatched("LIST")
    /\ last.intent.extracted_parameters.completed = None
    /\ last.intent.extracted_parameters.priority = None
    /\ last.result.success

\* C6: a LIST without filters by A, the first thing A dispatches after a
\* successful CREATE of title t, returns a task with title t and
\* completed = FALSE
C6_CreateThenList ==
    (UnfilteredList /\ last.created_before # None) =>
        \E i \in 1..Len(last.result.data.tasks) :
            /\ last.result.data.tasks[i].title = Val(last.created_before)
            /\ ~last.result.data.tasks[i].completed

C6_Witness ==
    /\ UnfilteredList
    /\ last.created_before # None
    /\ Len(last.result.data.tasks) = 2
    /\ Len(store) = 2

\* C10: an UNKNOWN intent returns a failed result with UNKNOWN_INTENT and no
\* tool name, and invokes no store operation
C10_UnknownIntent ==
    Dispatched("UNKNOWN") =>
        /\ ~last.result.success
        /\ last.result.error_code = Some("UNKNOWN_INTENT")
        /\ last.result.tool_name = None
        /\ last.calls = <<>>
        /\ store = last.before

C10_Witness == Dispatched("UNKNOWN") /\ store # <<>>

Resolved == phase = "done" /\ last.kind = "resolve"

ResolvedByTitle ==
    /\ Resolved
    /\ last.task_id = None
    /\ Truthy(last.task_title)
    /\ ~last.list_fails

\* the title of the task of table st with the given id
TitleOfId(st, task_id) ==
    LET i == CHOOSE i \in 1..Len(st) : st[i].id = task_id IN st[i].title

HasExactMatch ==
    \E i \in 1..Len(store) :
        /\ store[i].user_id = last.user
        /\ lower(store[i].title) = lower(Val(last.task_title))

\* C7 as stated: when a task of the owner has the referenced title (ignoring
\* case), the resolver returns a task whose title is the referenced title
\* (ignoring case)
C7_ExactMatchWins ==
    (ResolvedByTitle /\ HasExactMatch) =>
        /\ last.found # None
        /\ lower(TitleOfId(store, Val(last.found))) = lower(Val(last.task_title))

\* C7 amended: when a task of the owner has the referenced title (ignoring
\* case), the resolver returns the first task in the owner's list order whose
\* score is 1.0; that is the exact match unless an earlier task of the owner
\* also scores 1.0
C7_FirstFullScoreWins ==
    (ResolvedByTitle /\ HasExactMatch) =>
        LET tasks == TasksOf(store, last.user)
            needle == lower(Val(last.task_title))
            full == {i \in 1..Len(tasks) :
                        LET sc == Similarity(needle, lower(tasks[i].title))
                        IN sc[1] = sc[2]}
        IN last.found = Some(tasks[CHOOSE i \in full : \A j \in full : i <= j].id)

\* the exact match is the owner's second task and is the one returned
C7_Witness ==
    /\ ResolvedByTitle
    /\ Len(TasksOf(store, last.user)) = 2
    /\ last.found = Some(store[2].id)
    /\ store[2].title # Val(last.task_title)
    /\ lower(store[2].title) = lower(Val(last.task_title))

\* the score as the claim words it, on the lowercased strings
ClaimScore(needle, title) ==
    IF Contains(needle, title)
    THEN <<Len(needle), Len(title)>>
    ELSE IF Contains(title, needle)
    THEN <<Len(title), Len(needle)>>
    ELSE <<Cardinality({k \in 1..Len(needle) :
                            \E j \in 1..Len(title) : title[j] = needle[k]}),
           Max(Len(needle), Len(title))>>

\* C8: with only a title given the resolver returns the first task in list
\* order among those of maximal score when that score is at least 0.70, and
\* NOT_FOUND exactly when every task of the owner scores below 0.70; the score
\* is the containment or overlap ratio and lies in [0, 1]
C8_FirstBestAboveThreshold ==
    ResolvedByTitle =>
        LET tasks == TasksOf(store, last.user)
            needle == lower(Val(last.task_title))
            sc(i) == ClaimScore(needle, lower(tasks[i].title))
            good == {i \in 1..Len(tasks) : sc(i)[1] * 10 >= 7 * sc(i)[2]}
            best == {i \in good : \A j \in 1..Len(tasks) :
                                      sc(i)[1] * sc(j)[2] >= sc(j)[1] * sc(i)[2]}
        IN /\ \A i \in 1..Len(tasks) :
                 /\ Similarity(needle, lower(tasks[i].title)) = sc(i)
                 /\ sc(i)[2] > 0
                 /\ 0 <= sc(i)[1]
                 /\ sc(i)[1] <= sc(i)[2]
           /\ (good = {}) <=> (last.found = None)
           /\ good # {} =>
                 last.found = Some(tasks[CHOOSE i \in best : \A j \in best : i <= j].id)

\* two tasks of the owner tie at the best score, and a third case sits
\* exactly on the threshold
C8_Witness ==
    /\ ResolvedByTitle
    /\ last.found = Some(1)
    /\ Len(TasksOf(store, last.user)) = 2
    /\ Similarity(lower(Val(last.task_title)), lower(store[1].title))
         = Similarity(lower(Val(last.task_title)), lower(store[2].title))
    /\ lower(store[1].title) # lower(store[2].title)

\* C9: with an id given the resolver returns it exactly when a task of that
\* id is in the owner's fetched list, and NOT_FOUND otherwise whatever title
\* is given; with neither id nor title, or when the fetch fails, NOT_FOUND
C9_IdDecidesAlone ==
    Resolved =>
        /\ last.task_id # None =>
              /\ last.found \in {last.task_id, None}
              /\ (last.found = last.task_id) <=>
                    (/\ ~last.list_fails
                     /\ \E i \in 1..Len(store) :
                           /\ store[i].id = Val(last.task_id)
                           /\ store[i].user_id = last.user)
        /\ (last.task_id = None /\ last.task_title = None) => last.found = None
        /\ last.list_fails => last.found = None

\* an id outside the owner's list together with a title that resolves alone
C9_Witness ==
    /\ Resolved
    /\ last.task_id # None
    /\ last.task_title # None
    /\ ~last.list_fails
    /\ last.found = None
    /\ identify_task(store, last.user, None, last.task_title, FALSE) # None
    /\ \E i \in 1..Len(store) :
          store[i].id = Val(last.task_id) /\ store[i].user_id # last.user

Requested == phase = "done" /\ last.kind = "request"

\* C5 as stated: every message the pattern matcher classifies as CREATE is
\* answered by a call of add_task with the intent reported as CREATE, and is
\* never answered as casual conversation without a tool call
C5_CreateMessagesCreate ==
    (Requested /\ operation_type_of(last.message) = "CREATE") =>
        /\ ~last.casual
        /\ last.metadata.intent = "CREATE"
        /\ last.metadata.tool_called = Some("add_task")
        /\ InCalls("add_task")

Classified == phase = "done" /\ last.kind = "classify"

\* message.lower().strip() of the classified message
ClassifiedText == lower(Phrase(last.message))

HasExplicitKeyword == AnyIn(explicit_task_keywords, ClassifiedText)
HasMarkDone ==
    /\ AnyIn({<<"mark">>}, ClassifiedText)
    /\ AnyIn({<<"done">>, <<"complete">>}, ClassifiedText)
HasGreeting == AnyIn(pure_greetings, ClassifiedText)
HasSharing == AnyIn(sharing_patterns, ClassifiedText)
HasCompletionWord ==
    AnyIn({<<"mark">>, <<"complete">>, <<"done">>, <<"finished">>}, ClassifiedText)
HasGratitude == AnyIn({<<"thank">>, <<"thanks">>, <<"appreciate">>}, ClassifiedText)
HasFeeling == AnyIn(feeling_patterns, ClassifiedText)
HasMetaQuestion ==
    AnyIn({<<"who", "are", "you">>, <<"what", "are", "you">>,
           <<"what", "can", "you">>, <<"how", "do", "you">>}, ClassifiedText)
HasFarewell ==
    AnyIn({<<"bye">>, <<"goodbye">>, <<"see", "you">>, <<"good", "night">>},
          ClassifiedText)
HasTask == AnyIn({<<"task">>}, ClassifiedText)
IsShort == Len(last.message) <= 5

\* C11: a message that contains an explicit task keyword is never casual,
\* whatever greeting, gratitude, feeling, sharing or farewell words it holds
\* and however short it is
C11_ExplicitKeywordNotCasual ==
    (Classified /\ HasExplicitKeyword) => ~last.casual

\* an explicit keyword in a message of at most five words that also greets,
\* thanks and says goodbye
C11_Witness ==
    /\ Classified
    /\ HasExplicitKeyword
    /\ HasGreeting
    /\ HasGratitude
    /\ HasFarewell
    /\ IsShort
    /\ ~last.casual

\* C12: the classifier returns the outcome of the first applicable rule of
\* the ten: not casual with an explicit task keyword or with "mark" and
\* "done"/"complete"; otherwise casual with a farewell word even when the
\* text contains "task"; otherwise casual exactly when the text lacks "task"
\* and holds a greeting, a sharing phrase without a completion word, a
\* gratitude word, a feeling phrase or a meta-question, or has at most five
\* words
C12_FirstApplicableRule ==
    Classified =>
        (last.casual <=>
            /\ ~HasExplicitKeyword
            /\ ~HasMarkDone
            /\ \/ HasFarewell
               \/ /\ ~HasTask
                  /\ \/ HasGreeting
                     \/ HasSharing /\ ~HasCompletionWord
                     \/ HasGratitude
                     \/ HasFeeling
                     \/ HasMetaQuestion
                     \/ IsShort)

\* a farewell in a message of more than five words that contains "task" and
\* on which rules 1 and 2 do not fire
C12_Witness ==
    /\ Classified
    /\ HasFarewell
    /\ HasTask
    /\ ~HasExplicitKeyword
    /\ ~HasMarkDone
    /\ ~IsShort
    /\ last.casual

ParsedMessage == phase = "done" /\ last.kind = "parse"

\* the id counter before the dispatch recorded in last
NidBefore == IF Len(store) > Len(last.before) THEN nextId - 1 ELSE nextId

\* C13: parse_intent returns the intent of the first of the groups CREATE,
\* LIST, COMPLETE, UPDATE, DELETE that has a matching pattern and UNKNOWN when
\* none has, with the fixed confidence of that intent (in hundredths); and a
\* dispatch of an intent under any confidence invokes the same store
\* operations with the same result as under the fixed one
C13_FirstGroupFixedConfidence ==
    /\ ParsedMessage =>
          LET t == LowerWords(last.message)
              op == last.intent.operation_type
              c == create_patterns(t)
              l == list_patterns(t)
              m == complete_patterns(t)
              u == update_patterns(t)
              d == delete_patterns(t)
          IN /\ (op = "CREATE") <=> c
             /\ (op = "LIST") <=> (~c /\ l)
             /\ (op = "COMPLETE") <=> (~c /\ ~l /\ m)
             /\ (op = "UPDATE") <=> (~c /\ ~l /\ ~m /\ u)
             /\ (op = "DELETE") <=> (~c /\ ~l /\ ~m /\ ~u /\ d)
             /\ (op = "UNKNOWN") <=> (~c /\ ~l /\ ~m /\ ~u /\ ~d)
             /\ op = "CREATE" => last.intent.confidence = 95
             /\ op = "LIST" => last.intent.confidence = 98
             /\ op = "COMPLETE" => last.intent.confidence = 92
             /\ op = "UPDATE" => last.intent.confidence = 89
             /\ op = "DELETE" => last.intent.confidence = 91
             /\ op = "UNKNOWN" => last.intent.confidence = 45
    /\ (phase = "done" /\ last.kind = "dispatch") =>
          LET fixed == invoke_tool(last.before, NidBefore, last.user,
                                   IntentClassification(
                                       last.intent.operation_type,
                                       last.intent.extracted_parameters),
                                   last.fault)
          IN /\ fixed.calls = last.calls
             /\ fixed.result = last.result
             /\ fixed.st = store

\* a message in which every group has a matching pattern, the DELETE fragment
\* first, classified CREATE
C13_Witness ==
    /\ ParsedMessage
    /\ create_patterns(LowerWords(last.message))
    /\ list_patterns(LowerWords(last.message))
    /\ complete_patterns(LowerWords(last.message))
    /\ update_patterns(LowerWords(last.message))
    /\ delete_patterns(LowerWords(last.message))
    /\ last.message[1] = "remove"
    /\ last.intent.operation_type = "CREATE"
    /\ last.intent.confidence = 95

AnyDispatch == phase = "done" /\ last.kind = "dispatch"

MutatingCalls == {"add_task", "complete_task", "update_task", "delete_task"}

\* the store call that raises during the dispatch was made
FaultReached ==
    \/ last.fault = "list" /\ InCalls("list_tasks")
    \/ last.fault = "op" /\ \E name \in MutatingCalls : InCalls(name)

C15_NoExceptionEscapes ==
    Requested =>
        /\ (~last.casual /\ ContextRaises(last.history)) => last.raised # None
        /\ last.raised # None =>
              /\ last.response =
                    Text("Oops, something went wrong on my end! Could you try that again?",
                         <<>>)
              /\ last.metadata.intent = "ERROR"
              /\ last.metadata.confidence = 0
              /\ last.metadata.tool_called = None
              /\ last.metadata.error = Val(last.raised)
              /\ last.calls = <<>>
              /\ store = last.before
        /\ last.raised = None => "error" \notin DOMAIN last.metadata

\* parse_intent raises on a request that would otherwise have deleted a task
C15_Witness ==
    /\ Requested
    /\ last.raised # None
    /\ operation_type_of(last.message) = "DELETE"
    /\ store # <<>>

FormattedFailure ==
    /\ phase = "done"
    /\ last.kind = "format"
    /\ last.intent.operation_type # "UNKNOWN"

\* the reply to the failed result of last under another intent and another
\* error string
ReplyUnder(operation_type, error) ==
    format_response([last.intent EXCEPT !.operation_type = operation_type],
                    [last.result EXCEPT !.error = error])

\* C16 as stated: the reply to a failed result of an intent other than
\* UNKNOWN is the same under every error string and every such intent, and it
\* is the generic retry sentence for a code outside the five of the table
C16_Original ==
    FormattedFailure =>
        /\ \A operation_type \in OperationTypes \ {"UNKNOWN"}, error \in Opt(ErrorTexts) :
              ReplyUnder(operation_type, error) = last.response
        /\ last.result.error_code \notin
              {Some("TASK_NOT_FOUND"), Some("VALIDATION_ERROR"), Some("DATABASE_ERROR"),
               Some("INTERNAL_ERROR"), Some("INVALID_USER_ID")} =>
              last.response = Text("Something went wrong. Please try again.", <<>>)

\* C16: the reply to a failed result of an intent other than UNKNOWN is
\* decided by the error code: TASK_NOT_FOUND, DATABASE_ERROR, INTERNAL_ERROR
\* and INVALID_USER_ID have one fixed sentence each, under every error string
\* and intent; VALIDATION_ERROR gives "Invalid input: " followed by the error
\* string of the result; any other code gives the generic retry sentence
C16_ReplyByErrorCode ==
    FormattedFailure =>
        LET code == last.result.error_code
        IN /\ code = Some("TASK_NOT_FOUND") =>
                 last.response =
                    Text("I couldn't find that task. Try listing your tasks first.",
                         <<>>)
           /\ code = Some("DATABASE_ERROR") =>
                 last.response = Text("Something went wrong. Please try again.", <<>>)
           /\ code = Some("INTERNAL_ERROR") =>
                 last.response = Text("An error occurred. Please try again.", <<>>)
           /\ code = Some("INVALID_USER_ID") =>
                 last.response =
                    Text("User authentication failed. Please log in again.", <<>>)
           /\ code = Some("VALIDATION_ERROR") =>
                 last.response =
                    Text("Invalid input: {error_message}", <<last.result.error>>)
           /\ code \in {None, Some("UNKNOWN_INTENT")} =>
                 last.response = Text("Something went wrong. Please try again.", <<>>)
           /\ code # Some("VALIDATION_ERROR") =>
                 \A operation_type \in OperationTypes \ {"UNKNOWN"},
                    error \in Opt(ErrorTexts) :
                    ReplyUnder(operation_type, error) = last.response

\* a VALIDATION_ERROR result whose reply differs under another error string
C16_Witness ==
    /\ FormattedFailure
    /\ last.result.error_code = Some("VALIDATION_ERROR")
    /\ last.result.error = Some("Task not found")
    /\ ReplyUnder(last.intent.operation_type,
                  Some("Task title must be 500 characters or less")) # last.response

\* the rows of the table before the request that are gone after it
RemovedTasks ==
    {last.before[i] : i \in {j \in 1..Len(last.before) :
                                \A k \in 1..Len(store) : store[k].id # last.before[j].id}}

\* C17 as stated: the reply to a DELETE request that removed a task is
\* "Deleted task '{title}'" with the stored title of the removed task
C17_DeleteReplyNamesTask ==
    (Requested /\ ~last.casual /\ last.raised = None
        /\ last.intent.operation_type = "DELETE" /\ last.result.success) =>
        \A t \in RemovedTasks :
            last.response = Text("Deleted task '{title}'", <<t.title>>)

\* a request that went to the dispatcher
Handled ==
    /\ phase = "done"
    /\ last.kind \in {"dispatch", "request"}
    /\ "result" \in DOMAIN last

\* the positions of last.calls at which the store operation name was invoked
CallsOf(name) == {i \in 1..Len(last.calls) : last.calls[i] = name}

\* C18: a request invokes list_tasks and each of add_task, complete_task,
\* update_task and delete_task at most once and at most one of the four; a
\* mutating call is the last store call and the result is its response; a
\* store call that fails is the last store call of the request, the result of
\* the request is a failure and the table is unchanged
C18_NoRetryAfterFailure ==
    Handled =>
        /\ \A name \in MutatingCalls \cup {"list_tasks"} :
              Cardinality(CallsOf(name)) <= 1
        /\ Cardinality({i \in 1..Len(last.calls) : last.calls[i] \in MutatingCalls}) <= 1
        /\ \A i \in 1..Len(last.calls) :
              last.calls[i] \in MutatingCalls =>
                 /\ i = Len(last.calls)
                 /\ last.result.tool_name = Some(last.calls[i])
        /\ (last.fault = "list" /\ InCalls("list_tasks")) =>
              /\ last.calls = <<"list_tasks">>
              /\ ~last.result.success
              /\ store = last.before
        /\ (last.fault = "op" /\ \E name \in MutatingCalls : InCalls(name)) =>
              /\ ~last.result.success
              /\ store = last.before
        /\ ~last.result.success => store = last.before

\* the delete_task call of a request fails after a successful list fetch
C18_Witness ==
    /\ Handled
    /\ last.kind = "request"
    /\ last.fault = "op"
    /\ last.calls = <<"list_tasks", "delete_task">>
    /\ ~last.result.success
    /\ last.result.error_code = Some("DATABASE_ERROR")

\* the title or the description of the CREATE or UPDATE of last breaks a limit
LimitBroken ==
    LET p == last.intent.extracted_parameters
    IN \/ /\ last.intent.operation_type = "CREATE"
          /\ \/ Len(p.title) = 0
             \/ Len(p.title) > TitleMaxLength
             \/ p.description # None /\ Len(Val(p.description)) > DescriptionMaxLength
       \/ /\ last.intent.operation_type = "UPDATE"
          /\ \/ p.new_title # None /\ Len(Val(p.new_title)) = 0
             \/ p.new_title # None /\ Len(Val(p.new_title)) > TitleMaxLength
             \/ /\ p.new_description # None
                /\ Len(Val(p.new_description)) > DescriptionMaxLength

\* C19: every row of the table has a title of 1 to 500 characters and a
\* description of at most 2000 characters; a CREATE whose title is empty or
\* longer than 500 characters or whose description is longer than 2000
\* characters, and an UPDATE whose new title is empty or longer than 500
\* characters or whose new description is longer than 2000 characters, gives
\* a failed result and leaves the table as it was
C19_LengthLimits ==
    /\ \A i \in 1..Len(store) :
          /\ Len(store[i].title) >= 1
          /\ Len(store[i].title) <= TitleMaxLength
          /\ store[i].description # None =>
                Len(Val(store[i].description)) <= DescriptionMaxLength
    /\ (Handled /\ LimitBroken) =>
          /\ ~last.result.success
          /\ store = last.before

\* a title of 500 characters is stored and an update of that task to a title
\* of 501 characters is refused
C19_Witness ==
    /\ Handled
    /\ last.intent.operation_type = "UPDATE"
    /\ last.intent.extracted_parameters.new_title = Some(Filled(TitleMaxLength + 1))
    /\ last.resolved = Some(1)
    /\ ~last.result.success
    /\ \E i \in 1..Len(store) :
          store[i].id = 1 /\ Len(store[i].title) = TitleMaxLength

\* the rows of the table that the request added
AddedTasks ==
    {store[i] : i \in {j \in 1..Len(store) :
                          \A k \in 1..Len(last.before) : last.before[k].id # store[j].id}}

\* C20: a CREATE request that succeeds adds exactly one row, the row is
\* not completed and belongs to the requesting owner, and the task returned
\* in the result is that row, whatever words the message holds
C20_CreatedIncompleteOwned ==
    (Requested /\ ~last.casual /\ last.raised = None
        /\ last.intent.operation_type = "CREATE" /\ last.result.success) =>
        /\ Cardinality(AddedTasks) = 1
        /\ \A t \in AddedTasks :
              /\ ~t.completed
              /\ t.user_id = last.user
              /\ last.result.data.task = t

\* a task is created from a message that ends in "done"
C20_Witness ==
    /\ Requested
    /\ ~last.casual
    /\ last.raised = None
    /\ last.intent.operation_type = "CREATE"
    /\ last.result.success
    /\ last.message[Len(last.message)] = "done"
    /\ last.user = "u2"
    /\ \E t \in AddedTasks : ~t.completed /\ t.user_id = "u2"

\* C21 as stated: every tool result of a request carries an
\* execution_time_ms of at least 1 and the metadata of every response of
\* process_request carries an execution_time_ms of at least 1
C21_ExecutionTimeAtLeastOne ==
    Requested =>
        /\ last.metadata.execution_time_ms >= 1
        /\ "result" \in DOMAIN last => last.tool_execution_time_ms >= 1

FormattedUnknown ==
    /\ phase = "done"
    /\ last.kind = "format"
    /\ last.intent.operation_type = "UNKNOWN"

\* C22: the reply to an UNKNOWN intent is the fixed guidance sentence under
\* every tool result: a success, a failure with any error code or none, and a
\* dictionary that lacks fields
C22_UnknownGuidance ==
    FormattedUnknown =>
        last.response =
           Text("I can only help with task management. Try 'create a task' or 'show my tasks'.",
                <<>>)

\* a failed result of a tool formatted under an UNKNOWN intent
C22_Witness ==
    /\ FormattedUnknown
    /\ last.result = FailedResult(Some("delete_task"), "Task not found",
                                  "TASK_NOT_FOUND")
    /\ last.response # format_error_response(Some("TASK_NOT_FOUND"),
                                             Some("Task not found"))

\* a dispatch of the intent that succeeded on the resolved task
Succeeded(operation_type) ==
    /\ AnyDispatch
    /\ last.intent.operation_type = operation_type
    /\ last.result.success
    /\ last.resolved # None

\* the row of the resolved task before the dispatch
TargetBefore ==
    CHOOSE i \in 1..Len(last.before) : last.before[i].id = Val(last.resolved)

\* the table before the dispatch with the row of the resolved task replaced
WithTarget(task) == [last.before EXCEPT ![TargetBefore] = task]

\* C23: a successful UPDATE leaves the table as it was except for the title
\* of the resolved task when a new title was extracted and its description
\* when a new description was extracted; a successful COMPLETE leaves it as it
\* was except for the completed flag of the resolved task; a successful DELETE
\* leaves it as it was without the row of the resolved task; the resolved
\* task belongs to the requester, and its id and owner and every row of every
\* other task are as before
C23_OnlyTargetChanges ==
    LET p == last.intent.extracted_parameters
        old == last.before[TargetBefore]
    IN /\ (Succeeded("UPDATE") \/ Succeeded("COMPLETE") \/ Succeeded("DELETE")) =>
             /\ \E i \in 1..Len(last.before) : last.before[i].id = Val(last.resolved)
             /\ old.user_id = last.user
       /\ Succeeded("UPDATE") =>
             store = WithTarget(
                [old EXCEPT
                    !.title = IF p.new_title # None THEN Val(p.new_title) ELSE @,
                    !.description = IF p.new_description # None
                                    THEN p.new_description ELSE @])
       /\ Succeeded("COMPLETE") =>
             store = WithTarget([old EXCEPT !.completed = p.completed])
       /\ Succeeded("DELETE") =>
             store = SubSeq(last.before, 1, TargetBefore - 1)
                        \o SubSeq(last.before, TargetBefore + 1, Len(last.before))

\* a COMPLETE of one of two tasks of the same owner, the other one open
C23_Witness ==
    /\ Succeeded("COMPLETE")
    /\ last.intent.extracted_parameters.completed
    /\ Len(store) = 2
    /\ \A i \in 1..2 : store[i].user_id = last.user
    /\ \E i \in 1..2 : store[i].id # Val(last.resolved) /\ ~store[i].completed

\* a COMPLETE request that succeeded
Completed ==
    /\ Requested
    /\ ~last.casual
    /\ last.raised = None
    /\ last.intent.operation_type = "COMPLETE"
    /\ last.result.success

\* the message of last holds the word "undo" in any case
SaysUndo ==
    \E i \in 1..Len(last.message) : lower(Chars(last.message[i])) = Chars("undo")

C24_UndoWitness ==
    /\ Completed
    /\ SaysUndo
    /\ \E i \in 1..Len(last.before) :
          last.before[i].id = Val(last.resolved) /\ last.before[i].completed

\* both requests are over and both had resolved the same task before either
\* tool call was made
RacedOn(k) ==
    /\ phase = "race"
    /\ \A r \in 1..2 : last.reqs[r].pc = "done" /\ last.reqs[r].resolved = Some(k)

\* the table before the requests without the row of task k
Without(k) ==
    SelectSeq(last.before, LAMBDA t : t.id # k)

SequenceNumbers ==
    {chat.messages[i].sequence_number : i \in 1..Len(chat.messages)}

\* C26 as stated: under every interleaving of add_thread_item calls of the
\* owner on one conversation, every call stores its message (none is rejected
\* because another call computed the same next sequence number) and the
\* stored messages have pairwise distinct sequence numbers
C26_ConcurrentAppendsStored ==
    /\ Cardinality(SequenceNumbers) = Len(chat.messages)
    /\ last.kind = "add_thread_item" => last.raised # Some("IntegrityError")

\* C27 as stated: after any sequence of add_thread_item and
\* delete_thread_item calls the sequence numbers of the messages of the
\* conversation are exactly 0, 1, ..., n-1
C27_SequenceContiguous ==
    SequenceNumbers = 0..(Len(chat.messages) - 1)

\* the tool_calls rows of the turn of last: those of the newest message
TurnToolCalls ==
    {chat.tool_calls[i] : i \in {j \in 1..Len(chat.tool_calls) :
        chat.tool_calls[j].message_id = chat.messages[Len(chat.messages)].id}}

\* C28 as stated: a ToolCall row is written for a turn only if a task-store
\* tool was invoked in the turn, and it has status success only if the result
\* of the dispatch was a success
C28_ToolCallOnlyOnSuccess ==
    Requested =>
        \A tool_call \in TurnToolCalls :
            /\ ~last.casual
            /\ last.calls # <<>>
            /\ tool_call.status = "success" => last.result.success


(***************************************************************************)
(* agent/intent_parser.py: parse_intent on a message and a history of      *)
(* several turns, some of them the assistant's, some older than the six    *)
(* entries the parser looks at.                                            *)
(***************************************************************************)
MaxHistory == 7

HistoryEntries ==
    {[role |-> "user", content |-> <<"i", "bought", "milk">>],
     [role |-> "user", content |-> <<"i", "prepared", "eggs">>],
     [role |-> "assistant", content |-> <<"i", "finished", "tasks">>]}

LongHistories == UNION {[1..n -> HistoryEntries] : n \in 0..MaxHistory}

HistoryMessages ==
    {<<"done", "with", "it">>,
     <<"mark", "buy", "milk", "task", "done">>,
     <<"remove", "it">>}

NextHistory ==
    \/ \E message \in HistoryMessages, conversation_history \in LongHistories :
          Parse(message, conversation_history)
    \/ Respond

SpecHistory == Init /\ [][NextHistory]_vars

\* the entries of a history that are the user's, among its last six
RecentUserTurns(h) ==
    SelectSeq(SubSeq(h, Max(1, Len(h) - 5), Len(h)), LAMBDA msg : msg.role = "user")

\* the last three of them
WindowTurns(h) ==
    LET users == RecentUserTurns(h)
    IN SubSeq(users, Max(1, Len(users) - 2), Len(users))

\* the activity phrase of one turn, if it has one
ActivityPhrase(turn) == ContextTitle(LowerWords(turn.content))

\* a COMPLETE message with a pronoun whose own words give no title
BarePronoun(message) ==
    /\ operation_type_of(message) = "COMPLETE"
    /\ _extract_complete_params(message, <<>>).task_title = None
    /\ \E i \in 1..Len(message) :
          Stem(lower(Chars(message[i]))) \in Lits({"it", "that", "this"})

\* C29: for a COMPLETE message with a bare pronoun and no title of its own,
\* when the turns of the history window hold several user turns that each
\* have an activity phrase, the title is the activity phrase of the most
\* recent of them and nothing more.
C29_TitleFromMostRecentTurn ==
    (/\ last.kind = "parse"
     /\ BarePronoun(last.message)
     /\ Len(WindowTurns(last.history)) >= 2
     /\ \A i \in 1..Len(WindowTurns(last.history)) :
           ActivityPhrase(WindowTurns(last.history)[i]) # None)
    => LET turns == WindowTurns(last.history)
       IN last.intent.extracted_parameters.task_title
             = ActivityPhrase(turns[Len(turns)])


\* the words of a sequence of turns, in order
RECURSIVE WordsOf(_)
WordsOf(turns) ==
    IF turns = <<>> THEN <<>> ELSE Head(turns).content \o WordsOf(Tail(turns))

\* C30: the context of reference resolution is the words of the user turns
\* among the last 6 entries of the history, the last 3 of them at most; the
\* assistant's turns and older entries change nothing in the intent, and an
\* empty history gives an empty context.
C30_ContextFromRecentUserTurns ==
    last.kind = "parse"
    => /\ ContextText(last.history) = WordsOf(WindowTurns(last.history))
       /\ last.intent = parse_intent(last.message, WindowTurns(last.history))
       /\ last.history = <<>> => ContextText(last.history) = <<>>

\* a bare pronoun resolved from a history of seven entries that starts with
\* a user turn, has an assistant turn and more than three user turns among
\* its last six
C30_Witness ==
    /\ last.kind = "parse"
    /\ BarePronoun(last.message)
    /\ Len(last.history) = MaxHistory
    /\ last.history[1].role = "user"
    /\ Len(RecentUserTurns(last.history)) > 3
    /\ \E i \in 2..Len(last.history) : last.history[i].role = "assistant"
    /\ last.intent.extracted_parameters.task_title # None
    /\ last.intent.extracted_parameters.task_title
          # parse_intent(last.message, <<>>).extracted_parameters.task_title

====
